---- MODULE Spec2Model ----
(***************************************************************************)
(* Credit ledger of the AI Commenting Sidekick backend.                    *)
(*                                                                         *)
(* The data store is a PostgreSQL database reached through PostgREST:      *)
(* every query or update a handler awaits is one statement that commits    *)
(* on its own, and a call of a database function (use_credits,             *)
(* decrement_credit) is one transaction at READ COMMITTED: its reads see   *)
(* committed rows only, its UPDATE waits for the row lock and then works   *)
(* on the latest committed row, and its writes become visible when the     *)
(* function returns.                                                       *)
(***************************************************************************)
EXTENDS Integers, Sequences, FiniteSets, Bags, TLC

\* ------------------------------------------------------------ bounds
\* Concurrent requests of the single-image handler in SpecOpt.
NumOptReqs == 5
\* Credits of the purchase the SpecOpt requests compete for.
OptCredits == 4
\* The clock runs from 0 to MaxTime.
MaxTime == 1

\* Concurrent analyze requests in Spec.
NumReqs == 2
\* Purchases in the store.
MaxPurchases == 2
\* Calls of decrement_credit in a run.
MaxDecCalls == 1
\* Images of a batch request (the handler admits up to 4).
MaxImages == 2

\* Units of a consume in SpecSeq.
MaxUnits == 4
\* Webhook deliveries in SpecHook.
NumDeliveries == 3
\* Concurrent analyze requests in SpecAn.
NumAnReqs == 2
\* Deliveries of lifecycle events in SpecLife.
NumLifeEvents == 2
NumPayEvents == 3
NumOriginHooks == 2
NumFaultReqs == 2
NumCouponReqs == 2
NumDecCalls == 3
NumWatchReqs == 2
NumPartialReqs == 2
RateStep == 30000
MaxRateTime == 60000

\* ------------------------------------------------------------ constants
Null == 0
\* A subscription checkout grants PRO_CREDITS_PER_MONTH || '200' credits
ProCredits == 200
\* for PRO_VALIDITY_DAYS || '30' days (one step of the clock)
ProValidity == 1
\* A batch holds at most 4 images
MaxBatchImages == 4
\* A top-up grants TOPUP_CREDITS || '100' credits
TopupCredits == 100
\* POST /credits adds 200 credits
AddedCredits == 200
\* valid for 30 days (the clock counts periods of 30 days)
AddedValidity == 1
\* The optimistic-lock loop starts with three attempts.
InitialRetries == 3
MAX_REQUESTS_PER_MINUTE == 30
WindowMs == 60000

Owner == "u1"
Other == "u2"

VARIABLES
  now,        \* the wall clock (Date.now(), NOW())
  purchases,  \* credit_purchases: sequence of rows, the id is the index
  subs,       \* subscriptions: sequence of rows, the id is the index
  tier,       \* users.tier, by user id
  history,    \* subscription_history: sequence of rows
  usage,      \* api_usage: bag of rows (the table is insert-only)
  req,        \* the analyze requests in flight, by request number
  hook,       \* the webhook deliveries in flight, by delivery number
  snap,       \* credit_purchases as first stored (to measure deductions)
  reported,   \* the last answer of GET /credits
  decCalls,   \* calls of decrement_credit made so far
  statusCheck,     \* whether subscriptions.status carries the CHECK of the setup script
  rateLimitStore,  \* the rate limiter's Map: key -> the timestamps of the requests admitted
  rateLimitResult  \* what the last call of rateLimit returned

vars == <<now, purchases, subs, tier, history, usage, req, hook, snap, reported, decCalls,
         statusCheck, rateLimitStore, rateLimitResult>>

limiter == <<rateLimitStore, rateLimitResult>>

\* ------------------------------------------------------------ rows
Purchase(u, c, r, e, st, cr, s, ty, ses) ==
  [user |-> u, credits |-> c, remaining |-> r, expires |-> e, status |-> st,
   created |-> cr, sub |-> s, ptype |-> ty, session |-> ses]

UsageRow(u, pid, sid, used, key) ==
  [user |-> u, purchase |-> pid, sub |-> sid, credits_used |-> used, api_key_used |-> key]

NoReport == [user |-> "nobody", available_credits |-> 0]

Ids == DOMAIN purchases

RECURSIVE SumRemaining(_, _)
SumRemaining(rows, S) ==
  IF S = {} THEN 0
  ELSE LET i == CHOOSE x \in S : TRUE
       IN rows[i].remaining + SumRemaining(rows, S \ {i})

\* .eq('user_id', u).gt('remaining_credits', 0).or('expires_at.is.null,expires_at.gt.t')
\* (expires_at is NOT NULL in the schema). payment_status is not part of the filter.
ActiveIds(u, t) ==
  {i \in Ids : purchases[i].user = u /\ purchases[i].remaining > 0 /\ purchases[i].expires > t}

\* activePurchases.reduce((sum, p) => sum + p.remaining_credits, 0)
AvailableCredits(u, t) == SumRemaining(purchases, ActiveIds(u, t))

NewestIds(S) == {i \in S : \A j \in S : purchases[i].created >= purchases[j].created}

\* .order('created_at', {ascending: true}).limit(1): the rows a LIMIT 1 may return
OldestIds(S) == {i \in S : \A j \in S : purchases[i].created <= purchases[j].created}

\* ------------------------------------------------------------ requests
\* A request that is not inside a database function holds no row lock.
NoRecs == << >>
NoWrites == << >>

\* storeOk: the store carries out the request's updates of credit_purchases and
\* its call of use_credits (FALSE: they come back with an error); readOk: the
\* same for its reads of credit_purchases; logOk: the same for its inserts into
\* api_usage; storeError: the message of the error the store returns to a failing
\* statement of the request; at: the statement at which the request was answered;
\* details: the text of the store that the response carries ("" if none).
Request(k, own, n, ok) ==
  [kind |-> k, user |-> Owner, ownKey |-> own, n |-> n, computeOk |-> ok,
   storeOk |-> TRUE, readOk |-> TRUE, logOk |-> TRUE, storeError |-> "e1", details |-> "",
   at |-> "", pc |-> "start", nowv |-> 0, retries |-> 0, cpId |-> Null, cpRem |-> 0,
   left |-> 0, logs |-> 0, purchaseId |-> Null, subId |-> Null,
   recs |-> NoRecs, vrem |-> 0, writes |-> NoWrites,
   status |-> 0, taken |-> 0, timer |-> "armed", timedOut |-> FALSE, sends |-> 0]

Reqs == DOMAIN req

\* The rows a transaction has written and not yet committed are locked by it.
LockedBy(p) == {req[p].writes[k][1] : k \in 1..Len(req[p].writes)}
Locked(i) == \E p \in Reqs : i \in LockedBy(p)

SetRemaining(rows, i, v) == [rows EXCEPT ![i].remaining = v]

\* res.status(code).json(...): the request is answered and its locals are dropped.
\* res.headersSent: a response has been written for the request.
HeadersSent(p) == req[p].pc = "done" \/ req[p].timedOut

\* return res.status(code).json(...): the handler ends. Once the watchdog has
\* answered, the call throws (the headers are sent) inside the try block, and so
\* does the call in the catch block that handles the throw; the status the
\* client got stays.
Respond(p, code) ==
  [req[p] EXCEPT !.pc = "done", !.status = IF req[p].timedOut THEN req[p].status ELSE code,
                 !.sends = IF req[p].timedOut THEN req[p].sends + 2 ELSE req[p].sends + 1,
                 !.at = req[p].pc, !.nowv = 0, !.retries = 0,
                 !.cpId = Null, !.cpRem = 0, !.left = 0, !.logs = 0,
                 !.recs = NoRecs, !.vrem = 0, !.writes = NoWrites]

\* clearTimeout(timeoutId) and the response that follows it, in the success path
\* and in the catch block.
RespondCleared(p, code) ==
  [Respond(p, code) EXCEPT !.timer = IF req[p].timer = "armed" THEN "cleared" ELSE req[p].timer]

\* The response of the catch block after a throw of the compute call.
RespondCaught(p, code) == [RespondCleared(p, code) EXCEPT !.sends = req[p].sends + 1]

\* The response also carries a message of the store.
RespondWith(p, code, text) == [Respond(p, code) EXCEPT !.details = text]

\* The message of the error .single() returns when no row matches.
NoRowsText == "PGRST116"

\* findError?.message: the error of the read, or that of .single() without a row.
FindErrorText(p) == IF ~req[p].readOk THEN req[p].storeError ELSE NoRowsText

\* ------------------------------------------------------------ single-image handler
OptPreCheckAll(p) ==
  /\ req[p].kind = "opt" /\ req[p].pc = "start"
  /\ req' = [req EXCEPT ![p] =
       IF ~req[p].readOk \/ AvailableCredits(req[p].user, now) < 1 THEN Respond(p, 402)
       ELSE [req[p] EXCEPT !.pc = "compute"]]
  /\ UNCHANGED <<limiter, statusCheck, now, purchases, subs, tier, history, usage, hook, snap,
                 reported, decCalls>>

\* The balance pre-check before the compute call, skipped with the caller's key.
OptPreCheck(p) ==
  /\ req[p].kind = "opt" /\ req[p].pc = "start"
  /\ req' = [req EXCEPT ![p] =
       IF req[p].ownKey THEN [req[p] EXCEPT !.pc = "compute"]
       ELSE IF ~req[p].readOk \/ AvailableCredits(req[p].user, now) < 1 THEN Respond(p, 402)
       ELSE [req[p] EXCEPT !.pc = "compute"]]
  /\ UNCHANGED <<limiter, statusCheck, now, purchases, subs, tier, history, usage, hook, snap, reported, decCalls>>

OptComputeBlind(p) ==
  /\ req[p].kind = "opt" /\ req[p].pc = "compute"
  /\ req' = [req EXCEPT ![p] =
       IF req[p].ownKey THEN [req[p] EXCEPT !.pc = "log"]
       ELSE [req[p] EXCEPT !.pc = "check"]]
  /\ UNCHANGED <<limiter, statusCheck, now, purchases, subs, tier, history, usage, hook, snap,
                 reported, decCalls>>

\* The compute call raced against its 7 s timeout: a throw ends in the catch block.
OptCompute(p) ==
  /\ req[p].kind = "opt" /\ req[p].pc = "compute"
  /\ req' = [req EXCEPT ![p] =
       IF ~req[p].computeOk THEN RespondCaught(p, 500)
       ELSE IF req[p].ownKey THEN [req[p] EXCEPT !.pc = "log"]
       ELSE [req[p] EXCEPT !.pc = "check"]]
  /\ UNCHANGED <<limiter, statusCheck, now, purchases, subs, tier, history, usage, hook, snap, reported, decCalls>>

\* The credit check after the compute call; `now` is read once and kept for the loop.
OptCheck(p) ==
  /\ req[p].kind = "opt" /\ req[p].pc = "check"
  /\ req' = [req EXCEPT ![p] =
       IF ~req[p].readOk \/ AvailableCredits(req[p].user, now) < 1 THEN Respond(p, 402)
       ELSE [req[p] EXCEPT !.pc = "find", !.nowv = now, !.retries = InitialRetries]]
  /\ UNCHANGED <<limiter, statusCheck, now, purchases, subs, tier, history, usage, hook, snap, reported, decCalls>>

OptFindLenient(p) ==
  /\ req[p].kind = "opt" /\ req[p].pc = "find"
  /\ LET S == ActiveIds(req[p].user, req[p].nowv) IN
       IF S = {} THEN req' = [req EXCEPT ![p] = Respond(p, 200)]
       ELSE \E i \in OldestIds(S) :
              req' = [req EXCEPT ![p] = [req[p] EXCEPT !.pc = "update", !.cpId = i,
                                                       !.cpRem = purchases[i].remaining]]
  /\ UNCHANGED <<limiter, statusCheck, now, purchases, subs, tier, history, usage, hook, snap,
                 reported, decCalls>>

\* Find the oldest purchase with remaining credits; 402 with findError?.message
\* when the read fails or returns no row.
OptFind(p) ==
  /\ req[p].kind = "opt" /\ req[p].pc = "find"
  /\ LET S == ActiveIds(req[p].user, req[p].nowv) IN
       IF ~req[p].readOk \/ S = {}
       THEN req' = [req EXCEPT ![p] = RespondWith(p, 402, FindErrorText(p))]
       ELSE \E i \in OldestIds(S) :
              req' = [req EXCEPT ![p] = [req[p] EXCEPT !.pc = "update", !.cpId = i,
                                                       !.cpRem = purchases[i].remaining]]
  /\ UNCHANGED <<limiter, statusCheck, now, purchases, subs, tier, history, usage, hook, snap, reported, decCalls>>

OptLockDropped(p) == TRUE

\* The conditional update .eq('id', id).eq('remaining_credits', read value):
\* it matches the row only while remaining_credits is still the value read.
OptLockMatches(p) == purchases[req[p].cpId].remaining = req[p].cpRem

OptWrite(p) == req[p].cpRem - 1

OptUnmatchedWrites(p) ==
  SetRemaining(purchases, req[p].cpId, purchases[req[p].cpId].remaining - 1)

\* A conditional update that matches no row, or that the store fails, leaves the
\* table as it is.
OptUnmatched(p) == purchases

OptUpdateForever(p) ==
  /\ req[p].kind = "opt" /\ req[p].pc = "update"
  /\ ~Locked(req[p].cpId)
  /\ IF req[p].storeOk /\ OptLockMatches(p)
     THEN /\ purchases' = SetRemaining(purchases, req[p].cpId, OptWrite(p))
          /\ req' = [req EXCEPT ![p] = [req[p] EXCEPT !.pc = "log", !.taken = 1,
                                                      !.cpId = Null, !.cpRem = 0,
                                                      !.retries = 0, !.nowv = 0]]
     ELSE /\ UNCHANGED purchases
          /\ req' = [req EXCEPT ![p] = [req[p] EXCEPT !.pc = "find", !.cpId = Null,
                                                      !.cpRem = 0]]
  /\ UNCHANGED <<limiter, statusCheck, now, subs, tier, history, usage, hook, snap, reported, decCalls>>

\* creditResult is the updated row: null when no row matched or the update
\* failed; either way the loop retries while retries > 1 and answers 500 after.
OptUpdate(p) ==
  /\ req[p].kind = "opt" /\ req[p].pc = "update"
  /\ ~Locked(req[p].cpId)
  /\ IF req[p].storeOk /\ OptLockMatches(p)
     THEN /\ purchases' = SetRemaining(purchases, req[p].cpId, OptWrite(p))
          /\ req' = [req EXCEPT ![p] = [req[p] EXCEPT !.pc = "log", !.taken = 1,
                                                      !.cpId = Null, !.cpRem = 0,
                                                      !.retries = 0, !.nowv = 0]]
     ELSE /\ purchases' = OptUnmatched(p)
          /\ req' = [req EXCEPT ![p] =
               IF req[p].retries > 1
               THEN [req[p] EXCEPT !.pc = "find", !.retries = req[p].retries - 1,
                                   !.cpId = Null, !.cpRem = 0]
               ELSE Respond(p, 500)]
  /\ UNCHANGED <<limiter, statusCheck, now, subs, tier, history, usage, hook, snap, reported, decCalls>>

OptLogFails(p) ==
  /\ req[p].kind = "opt" /\ req[p].pc = "log"
  /\ usage' = IF req[p].logOk
               THEN usage (+) SetToBag({UsageRow(req[p].user, req[p].purchaseId,
                                                 req[p].subId, 1, req[p].ownKey)})
               ELSE usage
  /\ req' = [req EXCEPT ![p] = IF req[p].logOk THEN [req[p] EXCEPT !.pc = "final"]
                                ELSE Respond(p, 500)]
  /\ UNCHANGED <<limiter, statusCheck, now, purchases, subs, tier, history, hook, snap, reported, decCalls>>

\* The usage insert: purchaseId and subscriptionId are the outer declarations,
\* which the loop (that declares its own) never assigns.
OptLog(p) ==
  /\ req[p].kind = "opt" /\ req[p].pc = "log"
  /\ usage' = IF req[p].logOk
               THEN usage (+) SetToBag({UsageRow(req[p].user, req[p].purchaseId,
                                                 req[p].subId, 1, req[p].ownKey)})
               ELSE usage
  /\ req' = [req EXCEPT ![p] = [req[p] EXCEPT !.pc = "final"]]
  /\ UNCHANGED <<limiter, statusCheck, now, purchases, subs, tier, history, hook, snap, reported, decCalls>>

\* Read the updated balance and answer 200.
OptFinal(p) ==
  /\ req[p].kind = "opt" /\ req[p].pc = "final"
  /\ req' = [req EXCEPT ![p] = RespondCleared(p, 200)]
  /\ UNCHANGED <<limiter, statusCheck, now, purchases, subs, tier, history, usage, hook, snap, reported, decCalls>>

\* The callback of the 8.5 s timer set when the request arrives: it answers 504
\* unless a response has been written, and runs between two awaited statements
\* of the handler, which goes on after it.
Watchdog(p) ==
  /\ req[p].kind = "opt" /\ req[p].timer = "armed"
  /\ req' = [req EXCEPT ![p] =
       IF HeadersSent(p) THEN [req[p] EXCEPT !.timer = "fired"]
       ELSE [req[p] EXCEPT !.timer = "fired", !.timedOut = TRUE, !.status = 504,
                           !.sends = req[p].sends + 1]]
  /\ UNCHANGED <<limiter, statusCheck, now, purchases, subs, tier, history, usage, hook, snap, reported, decCalls>>

\* ------------------------------------------------------------ use_credits
\* WHERE user_id = p_user_id AND expires_at > NOW() AND payment_status = 'completed'
\*   AND remaining_credits > 0
UcIds(u, t) ==
  {i \in Ids : /\ purchases[i].user = u /\ purchases[i].expires > t
               /\ purchases[i].status = "completed" /\ purchases[i].remaining > 0}

\* ORDER BY created_at ASC: the orders the query may return its rows in.
SortedSeqs(S) ==
  {s \in [1..Cardinality(S) -> S] :
     /\ \A a, b \in 1..Cardinality(S) : a # b => s[a] # s[b]
     /\ \A a, b \in 1..Cardinality(S) :
          a < b => purchases[s[a]].created <= purchases[s[b]].created}

\* The check of the total: SELECT COALESCE(SUM(remaining_credits), 0) ... and
\* IF v_total_available < p_credits_to_use THEN RETURN 'Insufficient credits'.
\* NOW() is the start of the transaction. The handler answers 500 to a failed
\* call: an error of the rpc (creditError) or success = FALSE.
UcSum(p) ==
  /\ req[p].kind \in {"rpc", "uc"} /\ req[p].pc = "rpc"
  /\ req' = [req EXCEPT ![p] =
       IF ~req[p].storeOk THEN RespondWith(p, 500, req[p].storeError)
       ELSE IF SumRemaining(purchases, UcIds(req[p].user, now)) < req[p].n
       THEN Respond(p, 500)
       ELSE [req[p] EXCEPT !.pc = "uc_query", !.nowv = now]]
  /\ UNCHANGED <<limiter, statusCheck, now, purchases, subs, tier, history, usage, hook, snap, reported, decCalls>>

\* FOR v_record IN SELECT ... ORDER BY created_at ASC: the rows as committed
\* when the loop starts.
UcQuery(p) ==
  /\ req[p].kind \in {"rpc", "uc"} /\ req[p].pc = "uc_query"
  /\ \E s \in SortedSeqs(UcIds(req[p].user, req[p].nowv)) :
       req' = [req EXCEPT ![p] =
         [req[p] EXCEPT !.pc = IF Len(s) = 0 THEN "uc_return" ELSE "uc_loop",
                        !.recs = [k \in 1..Len(s) |-> <<s[k], purchases[s[k]].remaining>>],
                        !.vrem = req[p].n]]
  /\ UNCHANGED <<limiter, statusCheck, now, purchases, subs, tier, history, usage, hook, snap, reported, decCalls>>

\* SET remaining_credits = remaining_credits - v_credits_remaining, on the row as
\* it is once its lock is obtained (cur); rec is the row as the loop query saw it.
UcNewRemaining(cur, rec, vrem) == IF rec >= vrem THEN cur - vrem ELSE 0

\* One pass of the loop body: the UPDATE waits while another transaction holds
\* the row.
UcLoop(p) ==
  /\ req[p].kind \in {"rpc", "uc"} /\ req[p].pc = "uc_loop"
  /\ LET id == Head(req[p].recs)[1]
         rec == Head(req[p].recs)[2]
         vrem == req[p].vrem
         left == IF rec >= vrem THEN 0 ELSE vrem - rec
     IN /\ \A q \in Reqs \ {p} : id \notin LockedBy(q)
        /\ req' = [req EXCEPT ![p] =
             [req[p] EXCEPT
                !.writes = Append(req[p].writes,
                                  <<id, UcNewRemaining(purchases[id].remaining, rec, vrem)>>),
                !.vrem = left,
                !.purchaseId = IF rec >= vrem \/ req[p].purchaseId = Null
                               THEN id ELSE req[p].purchaseId,
                !.subId = IF rec >= vrem \/ req[p].purchaseId = Null
                          THEN purchases[id].sub ELSE req[p].subId,
                !.recs = IF left <= 0 THEN NoRecs ELSE Tail(req[p].recs),
                !.pc = IF left <= 0 \/ Len(req[p].recs) = 1 THEN "uc_return" ELSE "uc_loop"]]
  /\ UNCHANGED <<limiter, statusCheck, now, purchases, subs, tier, history, usage, hook, snap, reported, decCalls>>

RECURSIVE ApplyWrites(_, _)
ApplyWrites(rows, w) ==
  IF w = << >> THEN rows
  ELSE ApplyWrites(SetRemaining(rows, Head(w)[1], Head(w)[2]), Tail(w))

RECURSIVE SumTaken(_, _)
SumTaken(rows, w) ==
  IF w = << >> THEN 0
  ELSE (rows[Head(w)[1]].remaining - Head(w)[2]) + SumTaken(rows, Tail(w))

\* RETURN QUERY SELECT TRUE, ...: the transaction commits, its writes become
\* visible and its row locks are released; the handler goes on to the usage log.
UcReturn(p) ==
  /\ req[p].kind \in {"rpc", "uc"} /\ req[p].pc = "uc_return"
  /\ purchases' = ApplyWrites(purchases, req[p].writes)
  /\ req' = [req EXCEPT ![p] =
       IF req[p].kind = "uc"
       THEN [Respond(p, 200) EXCEPT !.taken = SumTaken(purchases, req[p].writes)]
       ELSE [req[p] EXCEPT !.pc = "log", !.writes = NoWrites, !.recs = NoRecs,
                           !.vrem = 0, !.nowv = 0,
                           !.taken = SumTaken(purchases, req[p].writes)]]
  /\ UNCHANGED <<limiter, statusCheck, now, subs, tier, history, usage, hook, snap, reported, decCalls>>

\* ------------------------------------------------------------ analyze handler calling use_credits
RpcPreCheck(p) ==
  /\ req[p].kind = "rpc" /\ req[p].pc = "start"
  /\ req' = [req EXCEPT ![p] =
       IF req[p].ownKey THEN [req[p] EXCEPT !.pc = "compute"]
       ELSE IF ~req[p].readOk \/ AvailableCredits(req[p].user, now) < 1 THEN Respond(p, 402)
       ELSE [req[p] EXCEPT !.pc = "compute"]]
  /\ UNCHANGED <<limiter, statusCheck, now, purchases, subs, tier, history, usage, hook, snap, reported, decCalls>>

RpcCompute(p) ==
  /\ req[p].kind = "rpc" /\ req[p].pc = "compute"
  /\ req' = [req EXCEPT ![p] =
       IF ~req[p].computeOk THEN Respond(p, 500)
       ELSE IF req[p].ownKey THEN [req[p] EXCEPT !.pc = "log"]
       ELSE [req[p] EXCEPT !.pc = "check"]]
  /\ UNCHANGED <<limiter, statusCheck, now, purchases, subs, tier, history, usage, hook, snap, reported, decCalls>>

\* The credit check before the call of use_credits.
RpcCheck(p) ==
  /\ req[p].kind = "rpc" /\ req[p].pc = "check"
  /\ req' = [req EXCEPT ![p] =
       IF ~req[p].readOk \/ AvailableCredits(req[p].user, now) < 1 THEN Respond(p, 402)
       ELSE [req[p] EXCEPT !.pc = "rpc"]]
  /\ UNCHANGED <<limiter, statusCheck, now, purchases, subs, tier, history, usage, hook, snap, reported, decCalls>>

\* The usage insert names the purchase use_credits returned.
RpcLog(p) ==
  /\ req[p].kind = "rpc" /\ req[p].pc = "log"
  /\ usage' = IF req[p].logOk
               THEN usage (+) SetToBag({UsageRow(req[p].user, req[p].purchaseId,
                                                 req[p].subId, 1, req[p].ownKey)})
               ELSE usage
  /\ req' = [req EXCEPT ![p] = [req[p] EXCEPT !.pc = "final"]]
  /\ UNCHANGED <<limiter, statusCheck, now, purchases, subs, tier, history, hook, snap, reported, decCalls>>

RpcFinal(p) ==
  /\ req[p].kind = "rpc" /\ req[p].pc = "final"
  /\ req' = [req EXCEPT ![p] = Respond(p, 200)]
  /\ UNCHANGED <<limiter, statusCheck, now, purchases, subs, tier, history, usage, hook, snap, reported, decCalls>>

\* ------------------------------------------------------------ analyze-batch handler
Min(a, b) == IF a < b THEN a ELSE b

\* The validation of the body (at most 4 images, else 400) and the balance
\* pre-check: the batch needs one credit per image.
BatchPreCheck(p) ==
  /\ req[p].kind = "batch" /\ req[p].pc = "start"
  /\ req' = [req EXCEPT ![p] =
       IF req[p].n > MaxBatchImages THEN Respond(p, 400)
       ELSE IF req[p].ownKey THEN [req[p] EXCEPT !.pc = "compute"]
       ELSE IF ~req[p].readOk \/ AvailableCredits(req[p].user, now) < req[p].n
            THEN Respond(p, 402)
       ELSE [req[p] EXCEPT !.pc = "compute"]]
  /\ UNCHANGED <<limiter, statusCheck, now, purchases, subs, tier, history, usage, hook, snap, reported, decCalls>>

\* Promise.all of the compute calls; then `now` is read and creditsToDeduct is
\* set to the number of images.
BatchCompute(p) ==
  /\ req[p].kind = "batch" /\ req[p].pc = "compute"
  /\ req' = [req EXCEPT ![p] =
       IF ~req[p].computeOk THEN Respond(p, 500)
       ELSE IF req[p].ownKey THEN [req[p] EXCEPT !.pc = "ownlog", !.logs = req[p].n]
       ELSE [req[p] EXCEPT !.pc = "bfind", !.nowv = now, !.left = req[p].n]]
  /\ UNCHANGED <<limiter, statusCheck, now, purchases, subs, tier, history, usage, hook, snap, reported, decCalls>>

BatchFindLenient(p) ==
  /\ req[p].kind = "batch" /\ req[p].pc = "bfind"
  /\ LET S == ActiveIds(req[p].user, req[p].nowv) IN
       IF ~req[p].readOk \/ S = {}
       THEN req' = [req EXCEPT ![p] = Respond(p, 200)]
       ELSE \E i \in OldestIds(S) :
              req' = [req EXCEPT ![p] = [req[p] EXCEPT !.pc = "bupdate", !.cpId = i,
                                                       !.cpRem = purchases[i].remaining]]
  /\ UNCHANGED <<limiter, statusCheck, now, purchases, subs, tier, history, usage, hook, snap,
                 reported, decCalls>>

\* Find the oldest purchase with remaining credits; 402 with findError?.message
\* when the read fails or returns no row.
BatchFind(p) ==
  /\ req[p].kind = "batch" /\ req[p].pc = "bfind"
  /\ LET S == ActiveIds(req[p].user, req[p].nowv) IN
       IF ~req[p].readOk \/ S = {}
       THEN req' = [req EXCEPT ![p] = RespondWith(p, 402, FindErrorText(p))]
       ELSE \E i \in OldestIds(S) :
              req' = [req EXCEPT ![p] = [req[p] EXCEPT !.pc = "bupdate", !.cpId = i,
                                                       !.cpRem = purchases[i].remaining]]
  /\ UNCHANGED <<limiter, statusCheck, now, purchases, subs, tier, history, usage, hook, snap, reported, decCalls>>

\* creditsFromThisPurchase = Math.min(creditsToDeduct, creditPurchase.remaining_credits)
BatchFromThis(p) == Min(req[p].left, req[p].cpRem)

\* update({remaining_credits: read value - creditsFromThisPurchase}).eq('id', id);
\* on creditError the handler answers 500.
BatchUpdate(p) ==
  /\ req[p].kind = "batch" /\ req[p].pc = "bupdate"
  /\ ~Locked(req[p].cpId)
  /\ IF req[p].storeOk
     THEN /\ purchases' = SetRemaining(purchases, req[p].cpId,
                                      req[p].cpRem - BatchFromThis(p))
          /\ req' = [req EXCEPT ![p] =
               [req[p] EXCEPT !.pc = "blog", !.left = req[p].left - BatchFromThis(p),
                              !.logs = BatchFromThis(p), !.cpRem = 0,
                              !.taken = req[p].taken + BatchFromThis(p)]]
     ELSE /\ UNCHANGED purchases
          /\ req' = [req EXCEPT ![p] = RespondWith(p, 500, req[p].storeError)]
  /\ UNCHANGED <<limiter, statusCheck, now, subs, tier, history, usage, hook, snap, reported, decCalls>>

\* One usage row per credit taken from this purchase; after the last one the loop
\* goes on while creditsToDeduct > 0.
BatchLog(p) ==
  /\ req[p].kind = "batch" /\ req[p].pc = "blog"
  /\ usage' = IF req[p].logOk
               THEN usage (+) SetToBag({UsageRow(req[p].user, req[p].cpId,
                                                 purchases[req[p].cpId].sub, 1, FALSE)})
               ELSE usage
  /\ req' = [req EXCEPT ![p] =
       IF req[p].logs > 1 THEN [req[p] EXCEPT !.logs = req[p].logs - 1]
       ELSE [req[p] EXCEPT !.logs = 0, !.cpId = Null,
                           !.pc = IF req[p].left > 0 THEN "bfind" ELSE "final"]]
  /\ UNCHANGED <<limiter, statusCheck, now, purchases, subs, tier, history, hook, snap, reported, decCalls>>

\* With the caller's own key: one usage row of 0 credits per result, then 200.
BatchOwnLog(p) ==
  /\ req[p].kind = "batch" /\ req[p].pc = "ownlog"
  /\ usage' = IF req[p].logOk
               THEN usage (+) SetToBag({UsageRow(req[p].user, Null, Null, 0, TRUE)})
               ELSE usage
  /\ req' = [req EXCEPT ![p] =
       IF req[p].logs > 1 THEN [req[p] EXCEPT !.logs = req[p].logs - 1]
       ELSE Respond(p, 200)]
  /\ UNCHANGED <<limiter, statusCheck, now, purchases, subs, tier, history, hook, snap, reported, decCalls>>

\* Read the updated balance and answer 200.
BatchFinal(p) ==
  /\ req[p].kind = "batch" /\ req[p].pc = "final"
  /\ req' = [req EXCEPT ![p] = Respond(p, 200)]
  /\ UNCHANGED <<limiter, statusCheck, now, purchases, subs, tier, history, usage, hook, snap, reported, decCalls>>

\* ------------------------------------------------------------ decrement_credit
\* SELECT ... FOR UPDATE waits for the row lock; a missing row or
\* current_credits < amount raises and the function returns success = false.
DecrementOk(i, amount) == i \in Ids /\ ~(purchases[i].remaining < amount)

DecrementCredit(i, amount) ==
  /\ decCalls < MaxDecCalls
  /\ i \in Ids => ~Locked(i)
  /\ decCalls' = decCalls + 1
  /\ purchases' = IF DecrementOk(i, amount)
                  THEN SetRemaining(purchases, i, purchases[i].remaining - amount)
                  ELSE purchases
  /\ UNCHANGED <<limiter, statusCheck, now, subs, tier, history, usage, req, hook, snap, reported>>

\* The statements of decrement_credit(purchase_id, amount), for calls that run
\* concurrently: cpId is purchase_id, n is amount, cpRem is current_credits; a
\* locked row is held in writes with its pending value. 200 stands for
\* success = true, 500 for success = false.
DecLockNoWait(p) ==
  /\ req[p].kind = "dec" /\ req[p].pc = "start"
  /\ req' = [req EXCEPT ![p] =
       IF req[p].cpId \notin Ids THEN [req[p] EXCEPT !.pc = "dec_check", !.cpRem = Null]
       ELSE [req[p] EXCEPT !.pc = "dec_check", !.cpRem = purchases[req[p].cpId].remaining,
                           !.writes = << <<req[p].cpId, purchases[req[p].cpId].remaining>> >>]]
  /\ UNCHANGED <<limiter, statusCheck, now, purchases, subs, tier, history, usage, hook, snap,
                 reported, decCalls>>

\* SELECT remaining_credits INTO current_credits ... FOR UPDATE: waits for the
\* row lock, takes it and reads the row as committed; no row gives NULL.
DecLock(p) ==
  /\ req[p].kind = "dec" /\ req[p].pc = "start"
  /\ req[p].cpId \in Ids => ~Locked(req[p].cpId)
  /\ req' = [req EXCEPT ![p] =
       IF req[p].cpId \notin Ids THEN [req[p] EXCEPT !.pc = "dec_check", !.cpRem = Null]
       ELSE [req[p] EXCEPT !.pc = "dec_check", !.cpRem = purchases[req[p].cpId].remaining,
                           !.writes = << <<req[p].cpId, purchases[req[p].cpId].remaining>> >>]]
  /\ UNCHANGED <<limiter, statusCheck, now, purchases, subs, tier, history, usage, hook, snap,
                 reported, decCalls>>

\* IF current_credits IS NULL OR current_credits < amount THEN RAISE: the
\* exception handler returns success = false and the lock is released.
DecCheck(p) ==
  /\ req[p].kind = "dec" /\ req[p].pc = "dec_check"
  /\ req' = [req EXCEPT ![p] =
       IF req[p].cpId \notin Ids \/ req[p].cpRem < req[p].n THEN Respond(p, 500)
       ELSE [req[p] EXCEPT !.pc = "dec_update"]]
  /\ UNCHANGED <<limiter, statusCheck, now, purchases, subs, tier, history, usage, hook, snap,
                 reported, decCalls>>

\* UPDATE ... SET remaining_credits = remaining_credits - amount WHERE id = purchase_id
DecUpdate(p) ==
  /\ req[p].kind = "dec" /\ req[p].pc = "dec_update"
  /\ \A q \in Reqs \ {p} : req[p].cpId \notin LockedBy(q)
  /\ req' = [req EXCEPT ![p] =
       [req[p] EXCEPT !.pc = "dec_return",
                      !.writes = << <<req[p].cpId,
                                      purchases[req[p].cpId].remaining - req[p].n>> >>]]
  /\ UNCHANGED <<limiter, statusCheck, now, purchases, subs, tier, history, usage, hook, snap,
                 reported, decCalls>>

\* RETURN jsonb_build_object('success', true, ...): the transaction commits.
DecReturn(p) ==
  /\ req[p].kind = "dec" /\ req[p].pc = "dec_return"
  /\ purchases' = ApplyWrites(purchases, req[p].writes)
  /\ req' = [req EXCEPT ![p] = [Respond(p, 200) EXCEPT !.taken = req[p].n]]
  /\ UNCHANGED <<limiter, statusCheck, now, subs, tier, history, usage, hook, snap, reported,
                 decCalls>>

\* ------------------------------------------------------------ /api/credits
\* GET: the balance is the sum over the rows with expires_at > now and
\* remaining_credits > 0.
GetCredits(u) ==
  /\ reported' = [user |-> u,
                  available_credits |->
                    SumRemaining(purchases, {i \in Ids : /\ purchases[i].user = u
                                                         /\ purchases[i].expires > now
                                                         /\ purchases[i].remaining > 0})]
  /\ UNCHANGED <<limiter, statusCheck, now, purchases, subs, tier, history, usage, req, hook, snap, decCalls>>

\* POST: a purchase of 200 credits for 30 days, completed in test mode and
\* pending otherwise (a request with neither test_mode nor payment_id is refused).
AddCredits(u, test_mode, has_payment_id) ==
  /\ Len(purchases) < MaxPurchases
  /\ test_mode \/ has_payment_id
  /\ purchases' = Append(purchases,
       Purchase(u, AddedCredits, AddedCredits, now + AddedValidity,
                IF test_mode THEN "completed" ELSE "pending", now, Null, Null, Null))
  /\ snap' = Append(snap, purchases'[Len(purchases')])
  /\ UNCHANGED <<limiter, statusCheck, now, subs, tier, history, usage, req, hook, reported, decCalls>>

\* ------------------------------------------------------------ rateLimit
\* The keys `${userId}:${endpoint}` of the two handlers that call rateLimit.
Endpoints == {"analyze", "analyze-batch"}
RateKeys == {Owner, Other} \X Endpoints

\* rateLimitStore.get(key) || []
NoHistory == [k \in RateKeys |-> << >>]
NoResult == [user |-> "nobody", endpoint |-> "", allowed |-> TRUE, retryAfter |-> 0]

\* userRequests.filter(timestamp => timestamp > windowStart)
Recent(ts, windowStart) == SelectSeq(ts, LAMBDA t : t > windowStart)

\* Math.ceil(ms / 1000) of a positive number of milliseconds
CeilSeconds(ms) == (ms + 999) \div 1000

\* rateLimit(userId, endpoint) at the time `now` (in milliseconds); the function
\* has no await inside and runs as one step. cleanup: Math.random() < 0.1.
RateLimit(userId, endpoint, cleanup) ==
  LET key == <<userId, endpoint>>
      windowStart == now - WindowMs
      recentRequests == Recent(rateLimitStore[key], windowStart)
      stored == [rateLimitStore EXCEPT ![key] = Append(recentRequests, now)]
  IN /\ IF Len(recentRequests) >= MAX_REQUESTS_PER_MINUTE
        THEN /\ rateLimitResult' =
                  [user |-> userId, endpoint |-> endpoint, allowed |-> FALSE,
                   retryAfter |-> CeilSeconds(recentRequests[1] + WindowMs - now)]
             /\ UNCHANGED rateLimitStore
        ELSE /\ rateLimitResult' = [user |-> userId, endpoint |-> endpoint,
                                    allowed |-> TRUE, retryAfter |-> 0]
             /\ rateLimitStore' = IF cleanup
                                  THEN [k \in RateKeys |-> Recent(stored[k], windowStart)]
                                  ELSE stored
     /\ UNCHANGED <<statusCheck, now, purchases, subs, tier, history, usage, req, hook, snap,
                    reported, decCalls>>

\* Time passes between two calls.
RateTick ==
  /\ now < MaxRateTime
  /\ now' = now + RateStep
  /\ UNCHANGED <<limiter, statusCheck, purchases, subs, tier, history, usage, req, hook, snap,
                 reported, decCalls>>

\* ------------------------------------------------------------ store outage
\* From some statement on, the store fails the updates of the request p.
StoreBreaks(p) ==
  /\ req[p].pc # "done" /\ req[p].storeOk
  /\ req' = [req EXCEPT ![p] = [req[p] EXCEPT !.storeOk = FALSE]]
  /\ UNCHANGED <<limiter, statusCheck, now, purchases, subs, tier, history, usage, hook, snap,
                 reported, decCalls>>

\* ------------------------------------------------------------ time
Tick ==
  /\ now < MaxTime
  /\ now' = now + 1
  /\ UNCHANGED <<limiter, statusCheck, purchases, subs, tier, history, usage, req, hook, snap, reported, decCalls>>

\* ------------------------------------------------------------ Stripe webhook
Subscription(u, ref, st, ps, pe, cpp) ==
  [user |-> u, ref |-> ref, status |-> st, period_start |-> ps, period_end |-> pe,
   credits_per_period |-> cpp]

HistoryRow(sid, u, ev, eid) ==
  [sub |-> sid, user |-> u, event_type |-> ev, stripe_event_id |-> eid]

\* A verified checkout.session.completed event: its session id, the metadata
\* (user_id, purchase_type) and, for a subscription, session.subscription.
CheckoutEvent(ses, ty, ref) ==
  [etype |-> "checkout.session.completed", session |-> ses, user |-> Owner,
   purchase_type |-> ty, ref |-> ref]

\* A delivery to the webhook endpoint whose stripe-signature verifies.
Delivery(ev) ==
  [event |-> ev, verified |-> TRUE, pc |-> "start", subId |-> Null, expires |-> 0, ack |-> 0]

\* A request to the webhook endpoint without a signature, or with one that
\* constructEvent rejects.
Forged(ev) == [Delivery(ev) EXCEPT !.verified = FALSE]

Hooks == DOMAIN hook

SubRefTakenNever(ref) == FALSE

\* stripe_subscription_id TEXT UNIQUE NOT NULL
SubRefTaken(ref) == \E k \in DOMAIN subs : subs[k].ref = ref

EventIdTaken(eid) == \E k \in DOMAIN history : history[k].stripe_event_id = eid

\* res.status(200).json({received: true}) once the handler has returned.
Ack(d) == [hook[d] EXCEPT !.pc = "done", !.ack = 200, !.subId = Null, !.expires = 0]

\* The endpoint answers 400 before the event is dispatched.
RejectUnverified(d) ==
  /\ hook[d].pc = "start" /\ ~hook[d].verified
  /\ hook' = [hook EXCEPT ![d] = [hook[d] EXCEPT !.pc = "done", !.ack = 400]]
  /\ UNCHANGED <<limiter, statusCheck, now, purchases, subs, tier, history, usage, req, snap, reported, decCalls>>

\* handleCheckoutCompleted, subscription branch: insert the subscription row; on
\* an insert error the handler logs and returns.
CheckoutSubInsert(d) ==
  /\ hook[d].pc = "start" /\ hook[d].verified /\ hook[d].event.etype = "checkout.session.completed"
  /\ hook[d].event.purchase_type = "subscription"
  /\ IF SubRefTaken(hook[d].event.ref)
     THEN /\ hook' = [hook EXCEPT ![d] = Ack(d)]
          /\ UNCHANGED subs
     ELSE /\ subs' = Append(subs, Subscription(hook[d].event.user, hook[d].event.ref,
                                               "active", now, now + ProValidity, ProCredits))
          /\ hook' = [hook EXCEPT ![d] = [hook[d] EXCEPT !.pc = "purchase",
                                                         !.subId = Len(subs) + 1,
                                                         !.expires = now + ProValidity]]
  /\ UNCHANGED <<limiter, statusCheck, now, purchases, tier, history, usage, req, snap, reported, decCalls>>

\* Insert the purchase of the subscription's credits, expiring at its period end.
CheckoutPurchaseInsert(d) ==
  /\ hook[d].pc = "purchase"
  /\ purchases' = Append(purchases,
       Purchase(hook[d].event.user, ProCredits, ProCredits, hook[d].expires, "completed",
                now, hook[d].subId, "subscription", hook[d].event.session))
  /\ snap' = Append(snap, purchases'[Len(purchases')])
  /\ hook' = [hook EXCEPT ![d] = [hook[d] EXCEPT !.pc = "tier"]]
  /\ UNCHANGED <<limiter, statusCheck, now, subs, tier, history, usage, req, reported, decCalls>>

CheckoutTierSkips(d) ==
  /\ hook[d].pc = "tier"
  /\ hook' = [hook EXCEPT ![d] = [hook[d] EXCEPT !.pc = "history"]]
  /\ UNCHANGED <<limiter, statusCheck, now, purchases, subs, tier, history, usage, req, snap, reported, decCalls>>

\* users.update({tier: 'pro'})
CheckoutTier(d) ==
  /\ hook[d].pc = "tier"
  /\ tier' = [tier EXCEPT ![hook[d].event.user] = "pro"]
  /\ hook' = [hook EXCEPT ![d] = [hook[d] EXCEPT !.pc = "history"]]
  /\ UNCHANGED <<limiter, statusCheck, now, purchases, subs, history, usage, req, snap, reported, decCalls>>

\* subscription_history insert with stripe_event_id = session.id (UNIQUE; the
\* result is not looked at), then the acknowledgement.
CheckoutHistory(d) ==
  /\ hook[d].pc = "history"
  /\ history' = IF EventIdTaken(hook[d].event.session) THEN history
                ELSE Append(history, HistoryRow(hook[d].subId, hook[d].event.user, "created",
                                                hook[d].event.session))
  /\ hook' = [hook EXCEPT ![d] = Ack(d)]
  /\ UNCHANGED <<limiter, statusCheck, now, purchases, subs, tier, usage, req, snap, reported, decCalls>>

SubsOfUser(u) == {k \in DOMAIN subs : subs[k].user = u}

\* .eq('user_id', userId).eq('status', 'active').single(): a row only when exactly
\* one matches.
ActiveSubs(u) == {k \in DOMAIN subs : subs[k].user = u /\ subs[k].status = "active"}

\* Top-up branch: look the active subscription up; without one the handler returns.
CheckoutTopupLookup(d) ==
  /\ hook[d].pc = "start" /\ hook[d].verified /\ hook[d].event.etype = "checkout.session.completed"
  /\ hook[d].event.purchase_type = "topup"
  /\ hook' = [hook EXCEPT ![d] =
       IF Cardinality(ActiveSubs(hook[d].event.user)) = 1
       THEN LET k == CHOOSE x \in ActiveSubs(hook[d].event.user) : TRUE
            IN [hook[d] EXCEPT !.pc = "topup", !.subId = k, !.expires = subs[k].period_end]
       ELSE Ack(d)]
  /\ UNCHANGED <<limiter, statusCheck, now, purchases, subs, tier, history, usage, req, snap, reported, decCalls>>

\* Insert the top-up purchase, expiring with the subscription period read.
CheckoutTopupInsert(d) ==
  /\ hook[d].pc = "topup"
  /\ purchases' = Append(purchases,
       Purchase(hook[d].event.user, TopupCredits, TopupCredits, hook[d].expires, "completed",
                now, hook[d].subId, "topup", hook[d].event.session))
  /\ snap' = Append(snap, purchases'[Len(purchases')])
  /\ hook' = [hook EXCEPT ![d] = Ack(d)]
  /\ UNCHANGED <<limiter, statusCheck, now, subs, tier, history, usage, req, reported, decCalls>>

\* ------------------------------------------------------------ /api/debug?action=test-webhook
\* The stripe_subscription_id ('test_sub_' + Date.now()) and the sessionId of the
\* request body.
TestRef == "test_sub"
TestSession == "cs_test"

\* handleTestWebhook: insert a subscription for the userId of the body; 500 when
\* the insert fails.
TestWebhookSub(p) ==
  /\ req[p].kind = "test-webhook" /\ req[p].pc = "start"
  /\ IF SubRefTaken(TestRef)
     THEN /\ req' = [req EXCEPT ![p] = Respond(p, 500)]
          /\ UNCHANGED subs
     ELSE /\ subs' = Append(subs, Subscription(req[p].user, TestRef, "active", now,
                                               now + ProValidity, ProCredits))
          /\ req' = [req EXCEPT ![p] = [req[p] EXCEPT !.pc = "tw_purchase",
                                                      !.subId = Len(subs) + 1]]
  /\ UNCHANGED <<limiter, statusCheck, now, purchases, tier, history, usage, hook, snap, reported, decCalls>>

\* Insert the completed purchase of 200 credits expiring with the period of the
\* subscription just inserted.
TestWebhookPurchase(p) ==
  /\ req[p].kind = "test-webhook" /\ req[p].pc = "tw_purchase"
  /\ purchases' = Append(purchases,
       Purchase(req[p].user, ProCredits, ProCredits, subs[req[p].subId].period_end,
                "completed", now, req[p].subId, "subscription", TestSession))
  /\ snap' = Append(snap, purchases'[Len(purchases')])
  /\ req' = [req EXCEPT ![p] = [req[p] EXCEPT !.pc = "tw_tier"]]
  /\ UNCHANGED <<limiter, statusCheck, now, subs, tier, history, usage, hook, reported, decCalls>>

\* users.update({tier: 'pro'}) and the 200 response.
TestWebhookTier(p) ==
  /\ req[p].kind = "test-webhook" /\ req[p].pc = "tw_tier"
  /\ tier' = [tier EXCEPT ![req[p].user] = "pro"]
  /\ req' = [req EXCEPT ![p] = Respond(p, 200)]
  /\ UNCHANGED <<limiter, statusCheck, now, purchases, subs, history, usage, hook, snap, reported, decCalls>>

\* ------------------------------------------------------------ /api/redeem-coupon
\* 'COUPON_SUB_' + Date.now(): the ids two readings of the millisecond clock give.
CouponRefs == {"COUPON_SUB_1", "COUPON_SUB_2"}
CouponSession == "COUPON_SESSION"

\* 'COUPON_REDEEM_' + Date.now() (stripe_event_id is UNIQUE).
CouponEventIds == {"COUPON_REDEEM_1", "COUPON_REDEEM_2"}

\* .eq('user_id', user.id).eq('status', 'active').gt('current_period_end', now)
\* .single(): a row only when exactly one matches.
CouponBlockers(u) ==
  {k \in DOMAIN subs : subs[k].user = u /\ subs[k].status = "active" /\ subs[k].period_end > now}

\* The check for an active subscription (400 with one), then the period dates.
CouponCheck(p) ==
  /\ req[p].kind = "coupon" /\ req[p].pc = "start"
  /\ req' = [req EXCEPT ![p] =
       IF Cardinality(CouponBlockers(req[p].user)) = 1 THEN Respond(p, 400)
       ELSE [req[p] EXCEPT !.pc = "cp_sub", !.nowv = now]]
  /\ UNCHANGED <<limiter, statusCheck, now, purchases, subs, tier, history, usage, hook, snap, reported, decCalls>>

\* The subscription insert; an error is thrown, and the catch block answers 400
\* to the unique violation 23505.
CouponSub(p) ==
  /\ req[p].kind = "coupon" /\ req[p].pc = "cp_sub"
  /\ \E ref \in CouponRefs :
       IF SubRefTaken(ref)
       THEN /\ req' = [req EXCEPT ![p] = Respond(p, 400)]
            /\ UNCHANGED subs
       ELSE /\ subs' = Append(subs, Subscription(req[p].user, ref, "active", req[p].nowv,
                                                 req[p].nowv + ProValidity, ProCredits))
            /\ req' = [req EXCEPT ![p] = [req[p] EXCEPT !.pc = "cp_purchase",
                                                        !.subId = Len(subs) + 1]]
  /\ UNCHANGED <<limiter, statusCheck, now, purchases, tier, history, usage, hook, snap, reported, decCalls>>

\* The completed purchase of PRO_CREDITS credits expiring at currentPeriodEnd.
CouponPurchase(p) ==
  /\ req[p].kind = "coupon" /\ req[p].pc = "cp_purchase"
  /\ purchases' = Append(purchases,
       Purchase(req[p].user, ProCredits, ProCredits, req[p].nowv + ProValidity, "completed",
                now, req[p].subId, "subscription", CouponSession))
  /\ snap' = Append(snap, purchases'[Len(purchases')])
  /\ req' = [req EXCEPT ![p] = [req[p] EXCEPT !.pc = "cp_tier"]]
  /\ UNCHANGED <<limiter, statusCheck, now, subs, tier, history, usage, hook, reported, decCalls>>

\* users.update({tier: 'pro'})
CouponTier(p) ==
  /\ req[p].kind = "coupon" /\ req[p].pc = "cp_tier"
  /\ tier' = [tier EXCEPT ![req[p].user] = "pro"]
  /\ req' = [req EXCEPT ![p] = [req[p] EXCEPT !.pc = "cp_history"]]
  /\ UNCHANGED <<limiter, statusCheck, now, purchases, subs, history, usage, hook, snap, reported, decCalls>>

\* The subscription_history insert (its result is not looked at) and the 200.
CouponHistory(p) ==
  /\ req[p].kind = "coupon" /\ req[p].pc = "cp_history"
  /\ \E eid \in CouponEventIds :
       history' = IF EventIdTaken(eid) THEN history
                  ELSE Append(history, HistoryRow(req[p].subId, req[p].user, "created", eid))
  /\ req' = [req EXCEPT ![p] = Respond(p, 200)]
  /\ UNCHANGED <<limiter, statusCheck, now, purchases, subs, tier, usage, hook, snap, reported, decCalls>>

\* ------------------------------------------------------------ subscription lifecycle events
\* status TEXT NOT NULL CHECK (status IN ('active', 'canceled', 'past_due', 'incomplete'))
StatusAllowed(st) == st \in {"active", "canceled", "past_due", "incomplete"}

\* The setup script creates the table with CREATE TABLE IF NOT EXISTS: the CHECK
\* is in force on a table the script created and absent from a table that was
\* there before. An UPDATE that breaks it is rejected as a whole, and the
\* handlers do not look at the result of their updates.
StatusWriteOk(st) == ~statusCheck \/ StatusAllowed(st)

\* A verified event of the subscription lifecycle: event.data.object is a
\* subscription (id = ref, status, current_period_start/end) or an invoice
\* (id, subscription = ref, billing_reason, period_end).
LifeEvent(ty, id, ref, st, reason, ps, pe) ==
  [etype |-> ty, id |-> id, ref |-> ref, status |-> st, billing_reason |-> reason,
   period_start |-> ps, period_end |-> pe]

\* An invoice that belongs to no subscription has no invoice.subscription.
NoRef == ""

\* The insert of a renewal names no stripe_checkout_session_id.
NoSession == ""

FindSubAny(ref) == IF subs = << >> THEN Null ELSE 1

\* .eq('stripe_subscription_id', ref).single(): the row of that ref, if any
\* (the column is UNIQUE).
FindSub(ref) ==
  IF \E k \in DOMAIN subs : subs[k].ref = ref
  THEN CHOOSE k \in DOMAIN subs : subs[k].ref = ref
  ELSE Null

\* The stored status for the provider's status.
MapStatus(s) ==
  IF s = "active" THEN "active"
  ELSE IF s = "past_due" THEN "past_due"
  ELSE IF s = "canceled" THEN "cancelled"
  ELSE "expired"

\* The insert into subscription_history; stripe_event_id is UNIQUE and the
\* result of the insert is not looked at.
LogHistory(sid, ev, eid) ==
  IF EventIdTaken(eid) THEN history
  ELSE Append(history, HistoryRow(sid, subs[sid].user, ev, eid))

\* handleSubscriptionUpdate: look the subscription up; unknown ref => return.
SubUpdateLookup(d) ==
  /\ hook[d].pc = "start" /\ hook[d].verified
  /\ hook[d].event.etype = "customer.subscription.updated"
  /\ hook' = [hook EXCEPT ![d] =
       IF FindSub(hook[d].event.ref) = Null THEN Ack(d)
       ELSE [hook[d] EXCEPT !.pc = "su_update", !.subId = FindSub(hook[d].event.ref)]]
  /\ UNCHANGED <<limiter, statusCheck, now, purchases, subs, tier, history, usage, req, snap, reported,
                 decCalls>>

\* update({status, current_period_start, current_period_end, ...})
\*   .eq('stripe_subscription_id', subscription.id)
SubUpdateWrite(d) ==
  /\ hook[d].pc = "su_update"
  /\ subs' = IF StatusWriteOk(MapStatus(hook[d].event.status))
             THEN [k \in DOMAIN subs |->
                     IF subs[k].ref = hook[d].event.ref
                     THEN [subs[k] EXCEPT !.status = MapStatus(hook[d].event.status),
                                          !.period_start = hook[d].event.period_start,
                                          !.period_end = hook[d].event.period_end]
                     ELSE subs[k]]
             ELSE subs
  /\ hook' = [hook EXCEPT ![d] = [hook[d] EXCEPT !.pc = "su_history"]]
  /\ UNCHANGED <<limiter, statusCheck, now, purchases, tier, history, usage, req, snap, reported,
                 decCalls>>

\* The history row carries the subscription's id as stripe_event_id.
SubUpdateHistory(d) ==
  /\ hook[d].pc = "su_history"
  /\ history' = LogHistory(hook[d].subId, "updated", hook[d].event.ref)
  /\ hook' = [hook EXCEPT ![d] = Ack(d)]
  /\ UNCHANGED <<limiter, statusCheck, now, purchases, subs, tier, usage, req, snap, reported,
                 decCalls>>

\* handleSubscriptionDeleted: look the subscription up; unknown ref => return.
SubDeletedLookup(d) ==
  /\ hook[d].pc = "start" /\ hook[d].verified
  /\ hook[d].event.etype = "customer.subscription.deleted"
  /\ hook' = [hook EXCEPT ![d] =
       IF FindSub(hook[d].event.ref) = Null THEN Ack(d)
       ELSE [hook[d] EXCEPT !.pc = "sd_status", !.subId = FindSub(hook[d].event.ref)]]
  /\ UNCHANGED <<limiter, statusCheck, now, purchases, subs, tier, history, usage, req, snap, reported,
                 decCalls>>

SubDeletedVoids(d) ==
  /\ hook[d].pc = "sd_status"
  /\ subs' = [k \in DOMAIN subs |->
               IF subs[k].ref = hook[d].event.ref
               THEN [subs[k] EXCEPT !.status = "cancelled"] ELSE subs[k]]
  /\ purchases' = [i \in DOMAIN purchases |->
                    IF purchases[i].sub = hook[d].subId
                    THEN [purchases[i] EXCEPT !.remaining = 0] ELSE purchases[i]]
  /\ hook' = [hook EXCEPT ![d] = [hook[d] EXCEPT !.pc = "sd_tier"]]
  /\ UNCHANGED <<limiter, statusCheck, now, tier, history, usage, req, snap, reported, decCalls>>

\* update({status: 'cancelled'}).eq('stripe_subscription_id', subscription.id)
SubDeletedStatus(d) ==
  /\ hook[d].pc = "sd_status"
  /\ subs' = IF StatusWriteOk("cancelled")
             THEN [k \in DOMAIN subs |->
                     IF subs[k].ref = hook[d].event.ref
                     THEN [subs[k] EXCEPT !.status = "cancelled"] ELSE subs[k]]
             ELSE subs
  /\ hook' = [hook EXCEPT ![d] = [hook[d] EXCEPT !.pc = "sd_tier"]]
  /\ UNCHANGED <<limiter, statusCheck, now, purchases, tier, history, usage, req, snap, reported,
                 decCalls>>

\* users.update({tier: 'free'}).eq('id', existingSubscription.user_id)
SubDeletedTier(d) ==
  /\ hook[d].pc = "sd_tier"
  /\ tier' = [tier EXCEPT ![subs[hook[d].subId].user] = "free"]
  /\ hook' = [hook EXCEPT ![d] = [hook[d] EXCEPT !.pc = "sd_history"]]
  /\ UNCHANGED <<limiter, statusCheck, now, purchases, subs, history, usage, req, snap, reported,
                 decCalls>>

SubDeletedHistory(d) ==
  /\ hook[d].pc = "sd_history"
  /\ history' = LogHistory(hook[d].subId, "cancelled", hook[d].event.ref)
  /\ hook' = [hook EXCEPT ![d] = Ack(d)]
  /\ UNCHANGED <<limiter, statusCheck, now, purchases, subs, tier, usage, req, snap, reported,
                 decCalls>>

\* handleInvoicePaymentSucceeded: without invoice.subscription nothing is done;
\* the renewal is applied when the subscription is known and billing_reason is
\* 'subscription_cycle'.
InvoicePaidLookup(d) ==
  /\ hook[d].pc = "start" /\ hook[d].verified
  /\ hook[d].event.etype = "invoice.payment_succeeded"
  /\ hook' = [hook EXCEPT ![d] =
       IF /\ hook[d].event.ref # NoRef
          /\ FindSub(hook[d].event.ref) # Null
          /\ hook[d].event.billing_reason = "subscription_cycle"
       THEN [hook[d] EXCEPT !.pc = "ip_status", !.subId = FindSub(hook[d].event.ref)]
       ELSE Ack(d)]
  /\ UNCHANGED <<limiter, statusCheck, now, purchases, subs, tier, history, usage, req, snap, reported,
                 decCalls>>

\* update({remaining_credits: 0, status: 'active'}).eq('id', subscription.id)
InvoicePaidStatus(d) ==
  /\ hook[d].pc = "ip_status"
  /\ subs' = IF StatusWriteOk("active")
             THEN [subs EXCEPT ![hook[d].subId].status = "active"]
             ELSE subs
  /\ hook' = [hook EXCEPT ![d] = [hook[d] EXCEPT !.pc = "ip_purchase"]]
  /\ UNCHANGED <<limiter, statusCheck, now, purchases, tier, history, usage, req, snap, reported,
                 decCalls>>

\* The purchase of the renewal: credits_per_period of the subscription as read,
\* expiring at invoice.period_end; it carries no checkout session.
InvoicePaidPurchase(d) ==
  /\ hook[d].pc = "ip_purchase"
  /\ purchases' = Append(purchases,
       Purchase(subs[hook[d].subId].user, subs[hook[d].subId].credits_per_period,
                subs[hook[d].subId].credits_per_period, hook[d].event.period_end,
                "completed", now, hook[d].subId, "subscription", NoSession))
  /\ snap' = Append(snap, purchases'[Len(purchases')])
  /\ hook' = [hook EXCEPT ![d] = [hook[d] EXCEPT !.pc = "ip_history"]]
  /\ UNCHANGED <<limiter, statusCheck, now, subs, tier, history, usage, req, reported, decCalls>>

\* The history row carries invoice.id as stripe_event_id.
InvoicePaidHistory(d) ==
  /\ hook[d].pc = "ip_history"
  /\ history' = LogHistory(hook[d].subId, "renewed", hook[d].event.id)
  /\ hook' = [hook EXCEPT ![d] = Ack(d)]
  /\ UNCHANGED <<limiter, statusCheck, now, purchases, subs, tier, usage, req, snap, reported,
                 decCalls>>

\* handleInvoicePaymentFailed
InvoiceFailedLookup(d) ==
  /\ hook[d].pc = "start" /\ hook[d].verified
  /\ hook[d].event.etype = "invoice.payment_failed"
  /\ hook' = [hook EXCEPT ![d] =
       IF hook[d].event.ref # NoRef /\ FindSub(hook[d].event.ref) # Null
       THEN [hook[d] EXCEPT !.pc = "if_status", !.subId = FindSub(hook[d].event.ref)]
       ELSE Ack(d)]
  /\ UNCHANGED <<limiter, statusCheck, now, purchases, subs, tier, history, usage, req, snap, reported,
                 decCalls>>

InvoiceFailedSkips(d) ==
  /\ hook[d].pc = "if_status"
  /\ hook' = [hook EXCEPT ![d] = Ack(d)]
  /\ UNCHANGED <<limiter, statusCheck, now, purchases, subs, tier, history, usage, req, snap, reported,
                 decCalls>>

\* update({status: 'past_due'}).eq('id', subscription.id)
InvoiceFailedStatus(d) ==
  /\ hook[d].pc = "if_status"
  /\ subs' = IF StatusWriteOk("past_due")
             THEN [subs EXCEPT ![hook[d].subId].status = "past_due"]
             ELSE subs
  /\ hook' = [hook EXCEPT ![d] = Ack(d)]
  /\ UNCHANGED <<limiter, statusCheck, now, purchases, tier, history, usage, req, snap, reported,
                 decCalls>>

\* ------------------------------------------------------------ SpecOpt
\* NumOptReqs concurrent credit-paid requests of one owner against one completed,
\* unexpired purchase of OptCredits credits; no grant, no clock tick.
InitOpt ==
  /\ now = 0
  /\ purchases = << Purchase(Owner, OptCredits, OptCredits, MaxTime + 1, "completed", 0,
                             Null, "subscription", Null) >>
  /\ subs = << >>
  /\ tier = [u \in {Owner, Other} |-> "free"]
  /\ history = << >>
  /\ usage = EmptyBag
  /\ req = [p \in 1..NumOptReqs |-> Request("opt", FALSE, 1, TRUE)]
  /\ hook = << >>
  /\ snap = purchases
  /\ reported = NoReport
  /\ decCalls = 0
  /\ statusCheck = TRUE
  /\ rateLimitStore = NoHistory
  /\ rateLimitResult = NoResult

NextOpt ==
  \/ \E p \in Reqs : OptPreCheck(p)
  \/ \E p \in Reqs : OptCompute(p)
  \/ \E p \in Reqs : OptCheck(p)
  \/ \E p \in Reqs : OptFind(p)
  \/ \E p \in Reqs : OptUpdate(p)
  \/ \E p \in Reqs : OptLog(p)
  \/ \E p \in Reqs : OptFinal(p)

SpecOpt == InitOpt /\ [][NextOpt]_vars

\* ------------------------------------------------------------ SpecWatch
\* NumWatchReqs requests to the single-image handler, credit-paid or with the
\* caller's key, whose compute call returns or throws, against one purchase of
\* OptCredits credits, with the 8.5 s timer of each request.
InitWatch ==
  /\ now = 0
  /\ purchases = << Purchase(Owner, OptCredits, OptCredits, MaxTime + 1, "completed", 0,
                             Null, "subscription", Null) >>
  /\ subs = << >>
  /\ tier = [u \in {Owner, Other} |-> "free"]
  /\ history = << >>
  /\ usage = EmptyBag
  /\ req \in [1..NumWatchReqs -> {Request("opt", own, 1, ok) : own, ok \in BOOLEAN}]
  /\ hook = << >>
  /\ snap = purchases
  /\ reported = NoReport
  /\ decCalls = 0
  /\ statusCheck = TRUE
  /\ rateLimitStore = NoHistory
  /\ rateLimitResult = NoResult

NextWatch ==
  \/ \E p \in Reqs : OptPreCheck(p)
  \/ \E p \in Reqs : OptCompute(p)
  \/ \E p \in Reqs : OptCheck(p)
  \/ \E p \in Reqs : OptFind(p)
  \/ \E p \in Reqs : OptUpdate(p)
  \/ \E p \in Reqs : OptLog(p)
  \/ \E p \in Reqs : OptFinal(p)
  \/ \E p \in Reqs : Watchdog(p)

SpecWatch == InitWatch /\ [][NextWatch]_vars

\* The same with every handler running on: an awaited statement returns, and the
\* 100 ms delay before a retry ends.
SpecOptFair == SpecOpt /\ WF_vars(NextOpt)

\* ------------------------------------------------------------ SpecRpc
\* Two concurrent requests of the handler that calls use_credits, for one owner
\* with a balance of RpcCredits.
InitRpc ==
  /\ now = 0
  /\ purchases \in {
       << Purchase(Owner, 1, 1, MaxTime + 1, "completed", 0, Null, "subscription", Null) >>,
       << Purchase(Owner, 2, 0, MaxTime + 1, "completed", 0, Null, "subscription", Null),
          Purchase(Owner, 1, 1, MaxTime + 1, "completed", 1, Null, "topup", Null),
          Purchase(Other, 1, 1, MaxTime + 1, "completed", 0, Null, "topup", Null),
          Purchase(Owner, 1, 1, 0, "completed", 0, Null, "topup", Null),
          Purchase(Owner, 200, 200, MaxTime + 1, "pending", 2, Null, "one_time", Null) >> }
  /\ subs = << >>
  /\ tier = [u \in {Owner, Other} |-> "free"]
  /\ history = << >>
  /\ usage = EmptyBag
  /\ req \in [1..2 -> {Request("rpc", FALSE, 1, ok) : ok \in BOOLEAN}]
  /\ hook = << >>
  /\ snap = purchases
  /\ reported = NoReport
  /\ decCalls = 0
  /\ statusCheck = TRUE
  /\ rateLimitStore = NoHistory
  /\ rateLimitResult = NoResult

NextRpc ==
  \/ \E p \in Reqs : RpcPreCheck(p)
  \/ \E p \in Reqs : RpcCompute(p)
  \/ \E p \in Reqs : RpcCheck(p)
  \/ \E p \in Reqs : UcSum(p)
  \/ \E p \in Reqs : UcQuery(p)
  \/ \E p \in Reqs : UcLoop(p)
  \/ \E p \in Reqs : UcReturn(p)
  \/ \E p \in Reqs : RpcLog(p)
  \/ \E p \in Reqs : RpcFinal(p)

SpecRpc == InitRpc /\ [][NextRpc]_vars

\* ------------------------------------------------------------ SpecBatch
\* Two concurrent batch requests of one owner.
InitBatch ==
  /\ now = 0
  /\ purchases \in {
       << Purchase(Owner, 5, 5, MaxTime + 1, "completed", 0, Null, "subscription", Null) >>,
       << Purchase(Owner, 2, 1, MaxTime + 1, "completed", 0, Null, "subscription", Null),
          Purchase(Owner, 3, 3, MaxTime + 1, "completed", 1, Null, "topup", Null) >> }
  /\ subs = << >>
  /\ tier = [u \in {Owner, Other} |-> "free"]
  /\ history = << >>
  /\ usage = EmptyBag
  /\ req \in [1..2 -> {Request("batch", own, n, ok) :
                         own \in BOOLEAN, n \in 1..MaxImages, ok \in BOOLEAN}]
  /\ hook = << >>
  /\ snap = purchases
  /\ reported = NoReport
  /\ decCalls = 0
  /\ statusCheck = TRUE
  /\ rateLimitStore = NoHistory
  /\ rateLimitResult = NoResult

NextBatch ==
  \/ \E p \in Reqs : BatchPreCheck(p)
  \/ \E p \in Reqs : BatchCompute(p)
  \/ \E p \in Reqs : BatchFind(p)
  \/ \E p \in Reqs : BatchUpdate(p)
  \/ \E p \in Reqs : BatchLog(p)
  \/ \E p \in Reqs : BatchOwnLog(p)
  \/ \E p \in Reqs : BatchFinal(p)

SpecBatch == InitBatch /\ [][NextBatch]_vars

\* ------------------------------------------------------------ Spec
\* All consume paths (the two single-image handlers, the batch handler,
\* decrement_credit) interleaved with grants by POST /credits, balance reads and
\* the passing of time.
DecAmounts == {-1, 1, 2}

Init ==
  /\ now = 0
  /\ purchases = << Purchase(Owner, 2, 2, 1, "completed", 0, Null, "subscription", Null) >>
  /\ subs = << >>
  /\ tier = [u \in {Owner, Other} |-> "free"]
  /\ history = << >>
  /\ usage = EmptyBag
  /\ req \in [1..NumReqs ->
                {Request("opt", FALSE, 1, TRUE), Request("rpc", FALSE, 1, TRUE)}
                \cup {Request("batch", FALSE, n, TRUE) : n \in 1..MaxImages}]
  /\ hook = << >>
  /\ snap = purchases
  /\ reported = NoReport
  /\ decCalls = 0
  /\ statusCheck = TRUE
  /\ rateLimitStore = NoHistory
  /\ rateLimitResult = NoResult

Next ==
  \/ \E p \in Reqs : OptPreCheck(p)
  \/ \E p \in Reqs : OptCompute(p)
  \/ \E p \in Reqs : OptCheck(p)
  \/ \E p \in Reqs : OptFind(p)
  \/ \E p \in Reqs : OptUpdate(p)
  \/ \E p \in Reqs : OptLog(p)
  \/ \E p \in Reqs : OptFinal(p)
  \/ \E p \in Reqs : RpcPreCheck(p)
  \/ \E p \in Reqs : RpcCompute(p)
  \/ \E p \in Reqs : RpcCheck(p)
  \/ \E p \in Reqs : UcSum(p)
  \/ \E p \in Reqs : UcQuery(p)
  \/ \E p \in Reqs : UcLoop(p)
  \/ \E p \in Reqs : UcReturn(p)
  \/ \E p \in Reqs : RpcLog(p)
  \/ \E p \in Reqs : RpcFinal(p)
  \/ \E p \in Reqs : BatchPreCheck(p)
  \/ \E p \in Reqs : BatchCompute(p)
  \/ \E p \in Reqs : BatchFind(p)
  \/ \E p \in Reqs : BatchUpdate(p)
  \/ \E p \in Reqs : BatchLog(p)
  \/ \E p \in Reqs : BatchFinal(p)
  \/ \E i \in 1..MaxPurchases, a \in DecAmounts : DecrementCredit(i, a)
  \/ GetCredits(Owner)
  \/ \E tm, pid \in BOOLEAN : AddCredits(Owner, tm, pid)
  \/ Tick

Spec == Init /\ [][Next]_vars

\* ------------------------------------------------------------ SpecSeq
\* One consume at a time: a call of use_credits(owner, N) or a batch request of N
\* images, against a ledger drawn from SeqLedgers; nothing else runs.
SeqLedgers ==
  {<< Purchase(Owner, 5, r1, e1, "completed", c1, Null, "subscription", Null),
      Purchase(Owner, 10, r2, 1, s2, c2, Null, "topup", Null),
      Purchase(u3, 5, r3, 1, "completed", c3, Null, "topup", Null) >> :
     r1 \in {1, 3}, e1 \in {0, 1}, c1 \in 0..2,
     r2 \in {0, 5, 10}, s2 \in {"completed", "pending"}, c2 \in 0..2,
     u3 \in {Owner, Other}, r3 \in {0, 2}, c3 \in 0..2}

InitSeq ==
  /\ now = 0
  /\ purchases \in SeqLedgers
  /\ subs = << >>
  /\ tier = [u \in {Owner, Other} |-> "free"]
  /\ history = << >>
  /\ usage = EmptyBag
  /\ req \in [1..1 -> {[Request(k, FALSE, n, TRUE) EXCEPT !.pc = IF k = "uc" THEN "rpc" ELSE "start"] :
                        k \in {"uc", "batch"}, n \in 1..MaxUnits}]
  /\ hook = << >>
  /\ snap = purchases
  /\ reported = NoReport
  /\ decCalls = 0
  /\ statusCheck = TRUE
  /\ rateLimitStore = NoHistory
  /\ rateLimitResult = NoResult

NextSeq ==
  \/ \E p \in Reqs : UcSum(p)
  \/ \E p \in Reqs : UcQuery(p)
  \/ \E p \in Reqs : UcLoop(p)
  \/ \E p \in Reqs : UcReturn(p)
  \/ \E p \in Reqs : BatchPreCheck(p)
  \/ \E p \in Reqs : BatchCompute(p)
  \/ \E p \in Reqs : BatchFind(p)
  \/ \E p \in Reqs : BatchUpdate(p)
  \/ \E p \in Reqs : BatchLog(p)
  \/ \E p \in Reqs : BatchFinal(p)

SpecSeq == InitSeq /\ [][NextSeq]_vars

\* ------------------------------------------------------------ SpecHook
\* NumDeliveries deliveries of checkout.session.completed events, each of them
\* the subscription checkout cs_sub or the top-up checkout cs_top, handled
\* concurrently; the same event may be delivered more than once.
SubCheckout == CheckoutEvent("cs_sub", "subscription", "sub_1")
TopupCheckout == CheckoutEvent("cs_top", "topup", Null)

InitHook ==
  /\ now = 0
  /\ purchases = << >>
  /\ subs = << >>
  /\ tier = [u \in {Owner, Other} |-> "free"]
  /\ history = << >>
  /\ usage = EmptyBag
  /\ req = << >>
  /\ hook \in [1..NumDeliveries -> {Delivery(SubCheckout), Delivery(TopupCheckout)}]
  /\ snap = purchases
  /\ reported = NoReport
  /\ decCalls = 0
  /\ statusCheck = TRUE
  /\ rateLimitStore = NoHistory
  /\ rateLimitResult = NoResult

NextHook ==
  \/ \E d \in Hooks : CheckoutSubInsert(d)
  \/ \E d \in Hooks : CheckoutPurchaseInsert(d)
  \/ \E d \in Hooks : CheckoutTier(d)
  \/ \E d \in Hooks : CheckoutHistory(d)
  \/ \E d \in Hooks : CheckoutTopupLookup(d)
  \/ \E d \in Hooks : CheckoutTopupInsert(d)
  \/ Tick

SpecHook == InitHook /\ [][NextHook]_vars

\* ------------------------------------------------------------ SpecLife
\* NumLifeEvents deliveries of subscription and invoice events, for the
\* subscription a checkout created ("sub_1") or for a ref the store does not
\* hold ("sub_9"), in any order and interleaving; the new period is 1 to 2.
KnownRef == "sub_1"
UnknownRef == "sub_9"

ProviderStatuses == {"active", "past_due", "canceled", "unpaid"}

SubUpdated(ref, st) == LifeEvent("customer.subscription.updated", "evt_su", ref, st, "none", 1, 2)
SubDeleted(ref) == LifeEvent("customer.subscription.deleted", "evt_sd", ref, "canceled", "none", 1, 2)
InvoicePaid(ref, reason) == LifeEvent("invoice.payment_succeeded", "in_1", ref, "paid", reason, 1, 2)
InvoiceFailed(ref) == LifeEvent("invoice.payment_failed", "in_2", ref, "open", "subscription_cycle", 1, 2)

LifeEvents ==
  {SubUpdated(ref, st) : ref \in {KnownRef, UnknownRef}, st \in ProviderStatuses}
  \cup {SubDeleted(ref) : ref \in {KnownRef, UnknownRef}}
  \cup {InvoicePaid(ref, r) : ref \in {KnownRef, UnknownRef, NoRef},
                              r \in {"subscription_cycle", "subscription_create"}}
  \cup {InvoiceFailed(ref) : ref \in {KnownRef, UnknownRef, NoRef}}

\* The store after the checkout of the subscription.
InitLife ==
  /\ now = 0
  /\ subs = <<Subscription(Owner, KnownRef, "active", 0, ProValidity, ProCredits)>>
  /\ purchases = <<Purchase(Owner, ProCredits, ProCredits, ProValidity, "completed", 0, 1,
                            "subscription", "cs_sub")>>
  /\ tier = [u \in {Owner, Other} |-> IF u = Owner THEN "pro" ELSE "free"]
  /\ history = <<HistoryRow(1, Owner, "created", "cs_sub")>>
  /\ usage = EmptyBag
  /\ req = << >>
  /\ hook \in [1..NumLifeEvents -> {Delivery(e) : e \in LifeEvents}]
  /\ snap = purchases
  /\ reported = NoReport
  /\ decCalls = 0
  /\ statusCheck \in BOOLEAN
  /\ rateLimitStore = NoHistory
  /\ rateLimitResult = NoResult

NextLife ==
  \/ \E d \in Hooks : SubUpdateLookup(d)
  \/ \E d \in Hooks : SubUpdateWrite(d)
  \/ \E d \in Hooks : SubUpdateHistory(d)
  \/ \E d \in Hooks : SubDeletedLookup(d)
  \/ \E d \in Hooks : SubDeletedStatus(d)
  \/ \E d \in Hooks : SubDeletedTier(d)
  \/ \E d \in Hooks : SubDeletedHistory(d)
  \/ \E d \in Hooks : InvoicePaidLookup(d)
  \/ \E d \in Hooks : InvoicePaidStatus(d)
  \/ \E d \in Hooks : InvoicePaidPurchase(d)
  \/ \E d \in Hooks : InvoicePaidHistory(d)
  \/ \E d \in Hooks : InvoiceFailedLookup(d)
  \/ \E d \in Hooks : InvoiceFailedStatus(d)
  \/ Tick

SpecLife == InitLife /\ [][NextLife]_vars

\* ------------------------------------------------------------ SpecPay
\* NumPayEvents deliveries, each of them the subscription checkout, the top-up
\* checkout, the deletion of the subscription or a failed invoice for it, in any
\* order and interleaving.
PayEvents == {SubCheckout, TopupCheckout, SubDeleted(KnownRef), InvoiceFailed(KnownRef)}

InitPay ==
  /\ now = 0
  /\ purchases = << >>
  /\ subs = << >>
  /\ tier = [u \in {Owner, Other} |-> "free"]
  /\ history = << >>
  /\ usage = EmptyBag
  /\ req = << >>
  /\ hook \in [1..NumPayEvents -> {Delivery(e) : e \in PayEvents}]
  /\ snap = purchases
  /\ reported = NoReport
  /\ decCalls = 0
  /\ statusCheck \in BOOLEAN
  /\ rateLimitStore = NoHistory
  /\ rateLimitResult = NoResult

NextPay ==
  \/ \E d \in Hooks : CheckoutSubInsert(d)
  \/ \E d \in Hooks : CheckoutPurchaseInsert(d)
  \/ \E d \in Hooks : CheckoutTier(d)
  \/ \E d \in Hooks : CheckoutHistory(d)
  \/ \E d \in Hooks : CheckoutTopupLookup(d)
  \/ \E d \in Hooks : CheckoutTopupInsert(d)
  \/ \E d \in Hooks : SubDeletedLookup(d)
  \/ \E d \in Hooks : SubDeletedStatus(d)
  \/ \E d \in Hooks : SubDeletedTier(d)
  \/ \E d \in Hooks : SubDeletedHistory(d)
  \/ \E d \in Hooks : InvoiceFailedLookup(d)
  \/ \E d \in Hooks : InvoiceFailedStatus(d)
  \/ Tick

SpecPay == InitPay /\ [][NextPay]_vars

\* ------------------------------------------------------------ SpecOrigin
\* NumOriginHooks requests to the webhook endpoint, each of them a checkout event
\* with a signature that verifies or one without, next to a request to the debug
\* endpoint test-webhook and requests to POST /credits.
InitOrigin ==
  /\ now = 0
  /\ purchases = << >>
  /\ subs = << >>
  /\ tier = [u \in {Owner, Other} |-> "free"]
  /\ history = << >>
  /\ usage = EmptyBag
  /\ req = <<Request("test-webhook", FALSE, 0, TRUE)>>
  /\ hook \in [1..NumOriginHooks -> {Delivery(SubCheckout), Delivery(TopupCheckout),
                                     Forged(SubCheckout), Forged(TopupCheckout)}]
  /\ snap = purchases
  /\ reported = NoReport
  /\ decCalls = 0
  /\ statusCheck = TRUE
  /\ rateLimitStore = NoHistory
  /\ rateLimitResult = NoResult

NextOrigin ==
  \/ \E d \in Hooks : RejectUnverified(d)
  \/ \E d \in Hooks : CheckoutSubInsert(d)
  \/ \E d \in Hooks : CheckoutPurchaseInsert(d)
  \/ \E d \in Hooks : CheckoutTier(d)
  \/ \E d \in Hooks : CheckoutHistory(d)
  \/ \E d \in Hooks : CheckoutTopupLookup(d)
  \/ \E d \in Hooks : CheckoutTopupInsert(d)
  \/ \E p \in Reqs : TestWebhookSub(p)
  \/ \E p \in Reqs : TestWebhookPurchase(p)
  \/ \E p \in Reqs : TestWebhookTier(p)
  \/ \E test_mode, has_payment_id \in BOOLEAN : AddCredits(Owner, test_mode, has_payment_id)
  \/ Tick

SpecOrigin == InitOrigin /\ [][NextOrigin]_vars

\* ------------------------------------------------------------ SpecCoupon
\* NumCouponReqs requests of one user to redeem the test coupon, concurrent or
\* one after the other, while time passes.
InitCoupon ==
  /\ now = 0
  /\ purchases = << >>
  /\ subs = << >>
  /\ tier = [u \in {Owner, Other} |-> "free"]
  /\ history = << >>
  /\ usage = EmptyBag
  /\ req = [p \in 1..NumCouponReqs |-> Request("coupon", FALSE, 0, TRUE)]
  /\ hook = << >>
  /\ snap = purchases
  /\ reported = NoReport
  /\ decCalls = 0
  /\ statusCheck = TRUE
  /\ rateLimitStore = NoHistory
  /\ rateLimitResult = NoResult

NextCoupon ==
  \/ \E p \in Reqs : CouponCheck(p)
  \/ \E p \in Reqs : CouponSub(p)
  \/ \E p \in Reqs : CouponPurchase(p)
  \/ \E p \in Reqs : CouponTier(p)
  \/ \E p \in Reqs : CouponHistory(p)
  \/ Tick

SpecCoupon == InitCoupon /\ [][NextCoupon]_vars

\* ------------------------------------------------------------ SpecRate
\* Calls of rateLimit for one user by the two handlers, at the times 0, 30 and
\* 60 seconds (in milliseconds); nothing else runs.
InitRate ==
  /\ now = 0
  /\ purchases = << >>
  /\ subs = << >>
  /\ tier = [u \in {Owner, Other} |-> "free"]
  /\ history = << >>
  /\ usage = EmptyBag
  /\ req = << >>
  /\ hook = << >>
  /\ snap = purchases
  /\ reported = NoReport
  /\ decCalls = 0
  /\ statusCheck = TRUE
  /\ rateLimitStore = NoHistory
  /\ rateLimitResult = NoResult

NextRate ==
  \/ \E e \in Endpoints, cleanup \in BOOLEAN : RateLimit(Owner, e, cleanup)
  \/ RateTick

SpecRate == InitRate /\ [][NextRate]_vars

\* ------------------------------------------------------------ SpecPartial
\* NumPartialReqs concurrent credit-paid requests of one owner, batches of up to
\* MaxImages images or single images, against two purchases of one credit each;
\* the store may start to fail a request's updates at any statement.
InitPartial ==
  /\ now = 0
  /\ purchases =
       << Purchase(Owner, 1, 1, MaxTime + 1, "completed", 0, Null, "subscription", Null),
          Purchase(Owner, 1, 1, MaxTime + 1, "completed", 1, Null, "topup", Null) >>
  /\ subs = << >>
  /\ tier = [u \in {Owner, Other} |-> "free"]
  /\ history = << >>
  /\ usage = EmptyBag
  /\ req \in [1..NumPartialReqs ->
                {Request("batch", FALSE, n, TRUE) : n \in 1..MaxImages}
                \cup {Request("opt", FALSE, 1, TRUE)}]
  /\ hook = << >>
  /\ snap = purchases
  /\ reported = NoReport
  /\ decCalls = 0
  /\ statusCheck = TRUE
  /\ rateLimitStore = NoHistory
  /\ rateLimitResult = NoResult

NextPartial ==
  \/ \E p \in Reqs : OptPreCheck(p)
  \/ \E p \in Reqs : OptCompute(p)
  \/ \E p \in Reqs : OptCheck(p)
  \/ \E p \in Reqs : OptFind(p)
  \/ \E p \in Reqs : OptUpdate(p)
  \/ \E p \in Reqs : OptLog(p)
  \/ \E p \in Reqs : OptFinal(p)
  \/ \E p \in Reqs : BatchPreCheck(p)
  \/ \E p \in Reqs : BatchCompute(p)
  \/ \E p \in Reqs : BatchFind(p)
  \/ \E p \in Reqs : BatchUpdate(p)
  \/ \E p \in Reqs : BatchLog(p)
  \/ \E p \in Reqs : BatchFinal(p)
  \/ \E p \in Reqs : StoreBreaks(p)

SpecPartial == InitPartial /\ [][NextPartial]_vars

\* ------------------------------------------------------------ SpecDec
\* NumDecCalls concurrent calls of decrement_credit with amounts from DecAmounts,
\* on a purchase of 3 credits or on an id no row has.
DecCalls ==
  {[Request("dec", FALSE, a, TRUE) EXCEPT !.cpId = i] : a \in DecAmounts, i \in 1..2}

InitDec ==
  /\ now = 0
  /\ purchases = << Purchase(Owner, 3, 3, MaxTime + 1, "completed", 0, Null, "subscription",
                             Null) >>
  /\ subs = << >>
  /\ tier = [u \in {Owner, Other} |-> "free"]
  /\ history = << >>
  /\ usage = EmptyBag
  /\ req \in [1..NumDecCalls -> DecCalls]
  /\ hook = << >>
  /\ snap = purchases
  /\ reported = NoReport
  /\ decCalls = 0
  /\ statusCheck = TRUE
  /\ rateLimitStore = NoHistory
  /\ rateLimitResult = NoResult

NextDec ==
  \/ \E p \in Reqs : DecLock(p)
  \/ \E p \in Reqs : DecCheck(p)
  \/ \E p \in Reqs : DecUpdate(p)
  \/ \E p \in Reqs : DecReturn(p)

SpecDec == InitDec /\ [][NextDec]_vars

\* ------------------------------------------------------------ SpecAn
\* NumAnReqs concurrent requests of one owner to the three analyze handlers, with
\* the caller's key or paid by credits; the compute call of a request succeeds
\* or throws (or loses against its timeout), and the store carries out the
\* request's updates or fails them.
AnRequests ==
  {Request(k, TRUE, 1, ok) : k \in {"opt", "rpc"}, ok \in BOOLEAN}
  \cup {Request("batch", TRUE, n, ok) : n \in 1..MaxImages, ok \in BOOLEAN}
  \cup {[Request(k, FALSE, 1, ok) EXCEPT !.storeOk = st] :
          k \in {"opt", "rpc"}, ok \in BOOLEAN, st \in BOOLEAN}
  \cup {[Request("batch", FALSE, n, ok) EXCEPT !.storeOk = st] :
          n \in 1..MaxImages, ok \in BOOLEAN, st \in BOOLEAN}

InitAn ==
  /\ now = 0
  /\ purchases \in {
       << Purchase(Owner, 1, 1, MaxTime + 1, "completed", 0, Null, "subscription", Null) >>,
       << Purchase(Owner, 2, 1, MaxTime + 1, "completed", 0, Null, "subscription", Null),
          Purchase(Owner, 3, 3, MaxTime + 1, "completed", 1, Null, "topup", Null) >> }
  /\ subs = << >>
  /\ tier = [u \in {Owner, Other} |-> "free"]
  /\ history = << >>
  /\ usage = EmptyBag
  /\ req \in [1..NumAnReqs -> AnRequests]
  /\ hook = << >>
  /\ snap = purchases
  /\ reported = NoReport
  /\ decCalls = 0
  /\ statusCheck = TRUE
  /\ rateLimitStore = NoHistory
  /\ rateLimitResult = NoResult

NextAn ==
  \/ \E p \in Reqs : OptPreCheck(p)
  \/ \E p \in Reqs : OptCompute(p)
  \/ \E p \in Reqs : OptCheck(p)
  \/ \E p \in Reqs : OptFind(p)
  \/ \E p \in Reqs : OptUpdate(p)
  \/ \E p \in Reqs : OptLog(p)
  \/ \E p \in Reqs : OptFinal(p)
  \/ \E p \in Reqs : RpcPreCheck(p)
  \/ \E p \in Reqs : RpcCompute(p)
  \/ \E p \in Reqs : RpcCheck(p)
  \/ \E p \in Reqs : UcSum(p)
  \/ \E p \in Reqs : UcQuery(p)
  \/ \E p \in Reqs : UcLoop(p)
  \/ \E p \in Reqs : UcReturn(p)
  \/ \E p \in Reqs : RpcLog(p)
  \/ \E p \in Reqs : RpcFinal(p)
  \/ \E p \in Reqs : BatchPreCheck(p)
  \/ \E p \in Reqs : BatchCompute(p)
  \/ \E p \in Reqs : BatchFind(p)
  \/ \E p \in Reqs : BatchUpdate(p)
  \/ \E p \in Reqs : BatchLog(p)
  \/ \E p \in Reqs : BatchOwnLog(p)
  \/ \E p \in Reqs : BatchFinal(p)

SpecAn == InitAn /\ [][NextAn]_vars

\* ------------------------------------------------------------ SpecOwn
\* The same requests on a ledger whose only purchase holds no credit, or one.
InitOwn ==
  /\ now = 0
  /\ purchases \in {
       << Purchase(Owner, 1, r, MaxTime + 1, "completed", 0, Null, "subscription", Null) >> :
         r \in 0..1 }
  /\ subs = << >>
  /\ tier = [u \in {Owner, Other} |-> "free"]
  /\ history = << >>
  /\ usage = EmptyBag
  /\ req \in [1..NumAnReqs -> AnRequests]
  /\ hook = << >>
  /\ snap = purchases
  /\ reported = NoReport
  /\ decCalls = 0
  /\ statusCheck = TRUE
  /\ rateLimitStore = NoHistory
  /\ rateLimitResult = NoResult

SpecOwn == InitOwn /\ [][NextAn]_vars

\* ------------------------------------------------------------ SpecFault
\* NumFaultReqs concurrent requests of one owner to the three analyze handlers
\* whose compute call succeeds, while the store fails the request's reads of
\* credit_purchases, its updates (or its call of use_credits), its inserts into
\* api_usage, or none of them, with one of two error messages.
ErrorTexts == {"e1", "e2"}

FaultRequests ==
  {[Request(k, TRUE, 1, TRUE) EXCEPT !.logOk = lg] : k \in {"opt", "rpc"}, lg \in BOOLEAN}
  \cup {[Request("batch", TRUE, n, TRUE) EXCEPT !.logOk = lg] :
          n \in 1..MaxImages, lg \in BOOLEAN}
  \cup {[Request(k, FALSE, 1, TRUE) EXCEPT !.storeOk = st, !.readOk = rd, !.logOk = lg,
                                           !.storeError = e] :
          k \in {"opt", "rpc"}, st \in BOOLEAN, rd \in BOOLEAN, lg \in BOOLEAN,
          e \in ErrorTexts}
  \cup {[Request("batch", FALSE, n, TRUE) EXCEPT !.storeOk = st, !.readOk = rd, !.logOk = lg,
                                                 !.storeError = e] :
          n \in 1..MaxImages, st \in BOOLEAN, rd \in BOOLEAN, lg \in BOOLEAN,
          e \in ErrorTexts}

InitFault ==
  /\ now = 0
  /\ purchases =
       << Purchase(Owner, 2, 1, MaxTime + 1, "completed", 0, Null, "subscription", Null),
          Purchase(Owner, 3, 3, MaxTime + 1, "completed", 1, Null, "topup", Null) >>
  /\ subs = << >>
  /\ tier = [u \in {Owner, Other} |-> "free"]
  /\ history = << >>
  /\ usage = EmptyBag
  /\ req \in [1..NumFaultReqs -> FaultRequests]
  /\ hook = << >>
  /\ snap = purchases
  /\ reported = NoReport
  /\ decCalls = 0
  /\ statusCheck = TRUE
  /\ rateLimitStore = NoHistory
  /\ rateLimitResult = NoResult

SpecFault == InitFault /\ [][NextAn]_vars

\* ------------------------------------------------------------ measures
AllDone == \A p \in Reqs : req[p].pc = "done"
Succeeded == {p \in Reqs : req[p].status = 200}
Failed == {p \in Reqs : req[p].status \in {402, 500}}

\* The spec's eligible purchases: completed and not expired.
EligibleIds(rows, u, t) ==
  {i \in DOMAIN rows : rows[i].user = u /\ rows[i].status = "completed" /\ rows[i].expires > t}

\* available_balance(owner) of the spec.
EligibleBalance(rows, u, t) ==
  SumRemaining(rows, {i \in EligibleIds(rows, u, t) : rows[i].remaining > 0})

\* The credits taken from the purchases since they were stored.
Deducted == SumRemaining(snap, DOMAIN snap) - SumRemaining(purchases, DOMAIN snap)

RECURSIVE SumUnits(_)
SumUnits(S) ==
  IF S = {} THEN 0
  ELSE LET p == CHOOSE x \in S : TRUE IN req[p].n + SumUnits(S \ {p})

\* The credit-paid requests answered 200.
Charged == {p \in Succeeded : ~req[p].ownKey}

\* ------------------------------------------------------------ claims

C2_ExactlyOneCharged ==
  (/\ AllDone
   /\ EligibleBalance(snap, Owner, 0) = 1
   /\ \A p \in Reqs : req[p].kind = "rpc" /\ req[p].computeOk)
    => /\ Cardinality(Succeeded) = 1
       /\ Cardinality(Failed) = 1
       /\ Cardinality({p \in Reqs : req[p].taken > 0}) = 1

\* C3 as stated: once the concurrent batch requests of an owner are answered, the
\* total decrease of remaining_credits equals the sum of N over the requests that
\* were answered 200 (no lost update).
C3_BatchSerializable ==
  AllDone => Deducted = SumUnits(Charged)

\* C4 as stated: every purchase keeps 0 <= remaining_credits <= credits.
C4_RemainingInRange ==
  \A i \in Ids : 0 <= purchases[i].remaining /\ purchases[i].remaining <= purchases[i].credits

\* C5 as stated: no write raises a purchase's remaining_credits.
C5_NeverIncreases ==
  [][\A i \in Ids : purchases'[i].remaining <= purchases[i].remaining]_vars

\* C7 as stated: a purchase whose expires_at is not later than the current time is
\* not part of a reported balance and is not decremented, at the moment of the write.
C7_ExpiredUntouched ==
  [][/\ \A i \in Ids : purchases'[i].remaining < purchases[i].remaining
                         => purchases[i].expires > now
     /\ reported' # reported
          => reported'.available_credits
               <= SumRemaining(purchases, {i \in Ids : purchases[i].expires > now})]_vars

\* C8 as stated: a purchase that is not completed is not part of a reported balance
\* and is not decremented by an analyze handler.
C8_OnlyCompletedCount ==
  [][/\ \A i \in Ids : (req' # req /\ purchases'[i].remaining < purchases[i].remaining)
                         => purchases[i].status = "completed"
     /\ reported' # reported
          => reported'.available_credits
               = EligibleBalance(purchases, reported'.user, now)]_vars

\* The purchases a consume lowered.
Lowered == {i \in DOMAIN snap : purchases[i].remaining < snap[i].remaining}

AllAcked == \A d \in Hooks : hook[d].pc = "done"
Delivered(ev) == {d \in Hooks : hook[d].event = ev}
SubsOf(ref) == {k \in DOMAIN subs : subs[k].ref = ref}
PurchasesOf(ses) == {i \in Ids : purchases[i].session = ses}

C10_OneTopupPurchase ==
  Cardinality(PurchasesOf(TopupCheckout.session)) <= 1

\* ------------------------------------------------------------ claims on the lifecycle events
RenewalEvent == InvoicePaid(KnownRef, "subscription_cycle")

\* The purchases the renewal handler added (they carry no checkout session).
Renewals == {i \in Ids : purchases[i].ptype = "subscription" /\ purchases[i].session = NoSession}

\* The delivery d takes a step.
Steps(d) == hook'[d] # hook[d]

\* The delivery d is acknowledged in this step.
Acked(d) == hook[d].pc # "done" /\ hook'[d].pc = "done"

\* C11: however often the invoice.payment_succeeded event of one renewal
\* (billing_reason subscription_cycle) is delivered, it grants one renewal
\* Purchase: never more than one, and exactly one once all deliveries are
\* acknowledged.
C11_OneRenewalPurchase ==
  /\ Cardinality(Renewals) <= 1
  /\ (AllAcked /\ Delivered(RenewalEvent) # {}) => Cardinality(Renewals) = 1

C15_DeletedKeepsPurchases ==
  [][\A d \in Hooks :
       (hook[d].event.etype = "customer.subscription.deleted" /\ Steps(d))
         => /\ purchases' = purchases
            /\ AvailableCredits(Owner, now)' = AvailableCredits(Owner, now)]_vars

\* C15 witness: the deletion of the known subscription is acknowledged, the
\* owner's tier is free, and the purchase granted under the subscription still
\* holds all its credits.
C15_Witness ==
  \E d \in Hooks :
    /\ hook[d].event = SubDeleted(KnownRef) /\ hook[d].pc = "done"
    /\ tier[Owner] = "free"
    /\ purchases[1].sub = 1 /\ purchases[1].remaining = ProCredits
    /\ purchases[1].status = "completed"

\* C16: the handler of customer.subscription.deleted, for a known ref, leaves the
\* Subscription with status cancelled after its status update and the owner's
\* tier free after its tier update.
C16_DeletedCancelsAndFrees ==
  [][\A d \in Hooks :
       hook[d].event.etype = "customer.subscription.deleted"
         => /\ (hook[d].pc = "sd_status" /\ hook'[d].pc = "sd_tier")
                 => subs'[hook[d].subId].status = "cancelled"
            /\ (hook[d].pc = "sd_tier" /\ hook'[d].pc = "sd_history")
                 => tier'[subs[hook[d].subId].user] = "free"]_vars

\* The delivery d is of an event that cancels a stored subscription.
Cancels(d) ==
  /\ FindSub(hook[d].event.ref) # Null
  /\ \/ hook[d].event.etype = "customer.subscription.deleted"
     \/ /\ hook[d].event.etype = "customer.subscription.updated"
        /\ hook[d].event.status = "canceled"

C18_UnknownRefNoOp ==
  [][\A d \in Hooks :
       (SubsOf(hook[d].event.ref) = {} /\ Steps(d))
         => /\ UNCHANGED <<purchases, subs, tier, history, usage>>
            /\ hook'[d].pc = "done" /\ hook'[d].ack = 200]_vars

\* C18 witness: one event of each handler for the unknown ref was delivered and
\* acknowledged with 200 and the tables are as the checkout left them.
C18_Witness ==
  /\ \E d \in Hooks : /\ hook[d].event = SubDeleted(UnknownRef)
                      /\ hook[d].pc = "done" /\ hook[d].ack = 200
  /\ \E d \in Hooks : /\ hook[d].event = InvoicePaid(UnknownRef, "subscription_cycle")
                      /\ hook[d].pc = "done" /\ hook[d].ack = 200
  /\ Len(subs) = 1 /\ subs[1].status = "active" /\ Len(purchases) = 1
  /\ Len(history) = 1 /\ tier[Owner] = "pro"

\* C19: the handler of invoice.payment_failed, for a known subscription, leaves
\* the Subscription with status past_due, and none of its steps changes a
\* Purchase.
C19_FailedSetsPastDue ==
  [][\A d \in Hooks :
       (hook[d].event = InvoiceFailed(KnownRef) /\ Steps(d))
         => /\ purchases' = purchases
            /\ Acked(d) => subs'[FindSub(KnownRef)].status = "past_due"]_vars

\* C19 witness: the payment failure of the known subscription is acknowledged,
\* the subscription is past_due and the purchases are as stored.
C19_Witness ==
  \E d \in Hooks :
    /\ hook[d].event = InvoiceFailed(KnownRef) /\ hook[d].pc = "done"
    /\ subs[1].status = "past_due"
    /\ purchases = snap /\ Len(purchases) = 1

\* C20: when the delivery of the renewal invoice of a known subscription is
\* acknowledged, there is a completed Purchase of credits_per_period credits that
\* expires at the new period end, and the Subscription's current_period_start and
\* current_period_end are those of the new period.
C20_RenewalGrantsAndMovesPeriod ==
  [][\A d \in Hooks :
       (hook[d].event = RenewalEvent /\ Acked(d))
         => /\ \E i \in Renewals' :
                 /\ purchases'[i].credits = subs[FindSub(KnownRef)].credits_per_period
                 /\ purchases'[i].status = "completed"
                 /\ purchases'[i].expires = RenewalEvent.period_end
            /\ subs'[FindSub(KnownRef)].period_start = RenewalEvent.period_start
            /\ subs'[FindSub(KnownRef)].period_end = RenewalEvent.period_end]_vars

\* ------------------------------------------------------------ claims on compute and deduction
\* The request p takes a step.
Moves(p) == req'[p] # req[p]

\* The compute call of p has returned its result.
Computed(p) == req[p].computeOk /\ req[p].pc \notin {"start", "compute"}

\* C12: a request whose compute call throws or times out never gets past the
\* compute call and takes no credit, and every write to credit_purchases or
\* api_usage is a step of a request whose compute call has returned successfully.
C12_NoChargeWithoutCompute ==
  [][/\ \A p \in Reqs :
          ~req[p].computeOk => /\ req'[p].pc \in {"start", "compute", "done"}
                               /\ req'[p].taken = 0
     /\ (purchases' # purchases \/ usage' # usage)
          => \E p \in Reqs : Moves(p) /\ Computed(p)]_vars

\* C12 witness: a credit-paid request of each handler whose compute call failed
\* was answered 500 at the compute call while the other request paid its credit,
\* and the ledger and the usage log hold the paying request's credit only.
C12_Witness ==
  \E p, q \in Reqs :
    /\ ~req[p].computeOk /\ ~req[p].ownKey
    /\ req[p].pc = "done" /\ req[p].status = 500 /\ req[p].at = "compute"
    /\ req[q].computeOk /\ ~req[q].ownKey /\ req[q].pc = "done" /\ req[q].status = 200
    /\ req[q].taken = 1 /\ Deducted = 1
    /\ BagCardinality(usage) = 1

\* The statements of the deduction at which a handler gives up: the lookup of the
\* purchase to decrement, the update, and the call of use_credits.
FailedLookup(p) == req[p].pc = "done" /\ req[p].at \in {"find", "bfind"}
FailedUpdate(p) == req[p].pc = "done" /\ req[p].at \in {"update", "bupdate"}
FailedCall(p) == req[p].pc = "done" /\ req[p].kind = "rpc" /\ req[p].at = "rpc"

\* C13 as stated: a request whose deduction failed after its compute call
\* succeeded is answered with a 5xx status.
C13_DeductionFailureIs5xx ==
  \A p \in Reqs :
    (FailedLookup(p) \/ FailedUpdate(p) \/ FailedCall(p)) => req[p].status >= 500

\* C13 amended: a request whose deduction failed after its compute call succeeded
\* is never answered 200: it is answered 402 when no purchase was found for the
\* decrement and 500 when the update failed, the optimistic-lock retries were
\* used up, or the call of use_credits failed.
C13_DeductionFailureFails ==
  \A p \in Reqs :
    /\ (FailedLookup(p) \/ FailedUpdate(p) \/ FailedCall(p)) => req[p].computeOk
    /\ FailedLookup(p) => req[p].status = 402
    /\ (FailedUpdate(p) \/ FailedCall(p)) => req[p].status = 500

\* C13 witness: after its compute call a request found no purchase to decrement
\* and was answered 402, the other request having taken the last credit.
C13_Witness ==
  \E p, q \in Reqs :
    /\ FailedLookup(p) /\ req[p].status = 402 /\ req[p].computeOk /\ req[p].taken = 0
    /\ req[q].pc = "done" /\ req[q].status = 200 /\ req[q].taken = 1
    /\ EligibleBalance(snap, Owner, 0) = 1

\* ------------------------------------------------------------ claims on checkout events
\* The delivery d carries the checkout of a top-up.
IsTopup(d) ==
  /\ hook[d].event.etype = "checkout.session.completed"
  /\ hook[d].event.purchase_type = "topup"

HasActiveSub(u) == \E k \in DOMAIN subs : subs[k].user = u /\ subs[k].status = "active"

TopupRows(rows) == {i \in DOMAIN rows : rows[i].ptype = "topup"}

\* C21: the handler of a top-up checkout goes on to its insert only with a
\* subscription of the owner that is active when the handler looks it up, and
\* returns without a purchase when the owner has no active subscription; a top-up
\* Purchase is only ever added by such a handler, with type topup and the
\* expires_at of the subscription period the handler read.
C21_TopupNeedsActiveSubscription ==
  [][/\ \A d \in Hooks :
          (IsTopup(d) /\ hook[d].pc = "start" /\ Steps(d))
            => /\ purchases' = purchases
               /\ ~HasActiveSub(hook[d].event.user) => hook'[d].pc = "done"
               /\ hook'[d].pc = "topup"
                    => /\ hook'[d].subId \in DOMAIN subs
                       /\ subs[hook'[d].subId].user = hook[d].event.user
                       /\ subs[hook'[d].subId].status = "active"
                       /\ hook'[d].expires = subs[hook'[d].subId].period_end
     /\ TopupRows(purchases') # TopupRows(purchases)
          => \E d \in Hooks :
               /\ IsTopup(d) /\ hook[d].pc = "topup" /\ Acked(d)
               /\ Len(purchases') = Len(purchases) + 1
               /\ \A i \in Ids : purchases'[i] = purchases[i]
               /\ LET row == purchases'[Len(purchases')]
                  IN /\ row.user = hook[d].event.user
                     /\ row.ptype = "topup"
                     /\ row.sub = hook[d].subId
                     /\ row.expires = hook[d].expires
                     /\ row.status = "completed"]_vars

\* C21 witness: of two deliveries of top-up checkouts, one was handled while the
\* owner had no active subscription and left no purchase, the other was handled
\* with the subscription active and left a top-up purchase expiring with its period.
C21_Witness ==
  /\ AllAcked
  /\ Cardinality({d \in Hooks : IsTopup(d)}) = 2
  /\ Cardinality(TopupRows(purchases)) = 1
  /\ \A i \in TopupRows(purchases) :
       /\ purchases[i].sub \in DOMAIN subs
       /\ purchases[i].expires = subs[purchases[i].sub].period_end

\* The delivery d carries the checkout of a subscription.
IsSubCheckout(d) ==
  /\ hook[d].event.etype = "checkout.session.completed"
  /\ hook[d].event.purchase_type = "subscription"

Grants(rows) == {<<i, rows[i]>> : i \in {j \in DOMAIN rows : rows[j].status = "completed"}}

\* C23 as stated: a webhook request whose signature does not verify changes no
\* table, and every step that creates or changes a Subscription row or a
\* completed Purchase is a step of the handler of a signature-verified event,
\* whatever is sent to POST /credits and the debug endpoint.
C23_OnlyVerifiedEvents ==
  [][/\ \A d \in Hooks :
          (~hook[d].verified /\ Steps(d))
            => UNCHANGED <<purchases, subs, tier, history, usage>>
     /\ (subs' # subs \/ Grants(purchases') # Grants(purchases))
          => \E d \in Hooks : hook[d].verified /\ Steps(d)]_vars

\* ------------------------------------------------------------ claims on store failures
\* The request p is at an insert into api_usage that the store fails.
LogFails(p) == ~req[p].logOk /\ req[p].pc \in {"log", "blog", "ownlog"}

\* C24: a step at which the usage insert of a request fails writes nothing: the
\* deduction already made is committed and stays, the request keeps what it took
\* and goes on as after a successful insert; a request of the single-image
\* handlers that has reached its usage insert is answered 200.
C24_UsageFailureKeepsDeduction ==
  [][\A p \in Reqs :
       /\ (LogFails(p) /\ Moves(p))
            => /\ req[p].writes = NoWrites
               /\ purchases' = purchases /\ usage' = usage
               /\ req'[p].taken = req[p].taken
               /\ req[p].pc = "log" => req'[p].pc = "final"
               /\ req[p].pc = "blog"
                    => req'[p].pc = IF req[p].logs > 1 THEN "blog"
                                    ELSE IF req[p].left > 0 THEN "bfind" ELSE "final"
               /\ req[p].pc = "ownlog"
                    => \/ req[p].logs > 1 /\ req'[p].pc = "ownlog"
                       \/ req[p].logs = 1 /\ req'[p].pc = "done" /\ req'[p].status = 200
       /\ (req[p].pc = "final" /\ Moves(p))
            => /\ req'[p].pc = "done" /\ req'[p].status = 200
               /\ req'[p].taken = req[p].taken
               /\ purchases' = purchases]_vars

\* C24 witness: a single-image request and a batch request whose usage inserts
\* all failed were both answered 200, the credits they took are gone from the
\* ledger and the usage log is empty.
C24_Witness ==
  \E p, q \in Reqs :
    /\ req[p].kind = "opt" /\ req[q].kind = "batch"
    /\ ~req[p].logOk /\ ~req[q].logOk /\ ~req[p].ownKey /\ ~req[q].ownKey
    /\ req[p].pc = "done" /\ req[p].status = 200 /\ req[p].taken = 1
    /\ req[q].pc = "done" /\ req[q].status = 200 /\ req[q].taken = 2
    /\ Deducted = 3
    /\ usage = EmptyBag

\* The request p was answered at a read of the owner's purchases that the store
\* failed: the balance pre-check or the credit check after the compute call.
FailedRead(p) ==
  /\ req[p].pc = "done" /\ ~req[p].ownKey /\ ~req[p].readOk
  /\ req[p].n <= MaxBatchImages
  /\ req[p].at \in {"start", "check"}

\* C25 as stated: a request answered at a failed read of the owner's purchases is
\* answered with a 5xx status, never with 402.
C25_ReadFailureIs5xx ==
  \A p \in Reqs : FailedRead(p) => req[p].status >= 500

\* The messages of the store.
StoreTexts == ErrorTexts \cup {NoRowsText}

\* C26 as stated: no response of an analyze handler carries a message of the
\* data store, so that two executions that differ only in the text of a store
\* error are answered alike.
C26_NoStoreTextInResponse ==
  \A p \in Reqs : req[p].pc = "done" => req[p].details \notin StoreTexts

\* ------------------------------------------------------------ claims on the test coupon
CouponSubs(u) == {k \in DOMAIN subs : subs[k].user = u /\ subs[k].ref \in CouponRefs}
CouponPurchases(u) == {i \in Ids : purchases[i].user = u /\ purchases[i].session = CouponSession}

\* C27 as stated: whatever requests to redeem the test coupon a user makes, and
\* however they interleave, the user has at most one Subscription and at most one
\* Purchase created by the coupon.
C27_CouponAtMostOnce ==
  /\ Cardinality(CouponSubs(Owner)) <= 1
  /\ Cardinality(CouponPurchases(Owner)) <= 1

\* ------------------------------------------------------------ claims on the optimistic-lock loop
\* C28: the loop is entered with 3 attempts left; each round reads the oldest
\* eligible purchase anew and either answers 402 (none found) or makes one
\* conditional update, which lowers that purchase by exactly 1 and leaves the
\* loop, or fails and uses up one attempt, or, failing with no attempt left,
\* answers 500; so a request makes at most 3 updates, and every request is
\* answered in the end.
C28_BoundedLoopTerminates ==
  /\ [][\A p \in Reqs :
          (req[p].kind = "opt" /\ Moves(p))
            => /\ (req[p].pc = "check" /\ req'[p].pc # "done")
                    => req'[p].pc = "find" /\ req'[p].retries = InitialRetries
               /\ req[p].pc = "find"
                    => /\ req[p].retries \in 1..InitialRetries
                       /\ purchases' = purchases
                       /\ \/ req'[p].pc = "done" /\ req'[p].status = 402
                          \/ /\ req'[p].pc = "update"
                             /\ req'[p].retries = req[p].retries
                             /\ req'[p].cpId \in OldestIds(ActiveIds(req[p].user, req[p].nowv))
                             /\ req'[p].cpRem = purchases[req'[p].cpId].remaining
               /\ req[p].pc = "update"
                    => /\ req[p].retries \in 1..InitialRetries
                       /\ \/ /\ req'[p].pc = "log" /\ req'[p].taken = 1
                             /\ purchases' = SetRemaining(purchases, req[p].cpId,
                                               purchases[req[p].cpId].remaining - 1)
                          \/ /\ req'[p].pc = "find" /\ req[p].retries > 1
                             /\ req'[p].retries = req[p].retries - 1
                             /\ purchases' = purchases
                          \/ /\ req'[p].pc = "done" /\ req'[p].status = 500
                             /\ req[p].retries = 1
                             /\ purchases' = purchases]_vars
  /\ <>AllDone

\* C28 witness: a request lost its third conditional update and was answered 500
\* at the update, while three other requests were answered 200 with one credit
\* taken each.
C28_Witness ==
  \E p \in Reqs :
    /\ req[p].pc = "done" /\ req[p].status = 500 /\ req[p].at = "update" /\ req[p].taken = 0
    /\ Cardinality({q \in Reqs : req[q].pc = "done" /\ req[q].status = 200
                                 /\ req[q].taken = 1}) >= InitialRetries

\* The request p was answered with the concurrent-conflict failure.
ConflictFailed(p) ==
  req[p].kind = "opt" /\ req[p].pc = "done" /\ req[p].status = 500 /\ req[p].at = "update"

\* The requests whose conditional update went through.
Decremented == {p \in Reqs : req[p].pc \in {"log", "final"} \/ req[p].status = 200}

\* C29: a request answered with the concurrent-conflict failure has taken no
\* credit: what is gone from the ledger is one credit for each request whose
\* update went through, and nothing for the requests that failed.
C29_ConflictChargesNothing ==
  /\ \A p \in Reqs : ConflictFailed(p) => req[p].taken = 0 /\ p \notin Decremented
  /\ Deducted = Cardinality(Decremented)

\* C29 witness: all requests are answered, one of them with the conflict failure,
\* and the ledger is lower by exactly the credits of the requests answered 200.
C29_Witness ==
  /\ AllDone
  /\ \E p \in Reqs : ConflictFailed(p)
  /\ Deducted = Cardinality(Succeeded)
  /\ Deducted = OptCredits

\* ------------------------------------------------------------ claims on the usage log
\* C30 as stated: a usage record has no purchase reference only when the request
\* was paid with the caller's own API key; the record of a credit-paid request
\* names the purchase its credit was drawn from.
C30_UsageNamesPurchase ==
  \A row \in BagToSet(usage) : row.purchase = Null => row.api_key_used

\* ------------------------------------------------------------ claims on the balance pre-check
\* The request p, paid by credits, is at its pre-check with an eligible balance
\* below the units it asks for.
Short(p) ==
  /\ req[p].kind \in {"opt", "rpc", "batch"} /\ req[p].pc = "start" /\ ~req[p].ownKey
  /\ req[p].n <= MaxBatchImages
  /\ EligibleBalance(purchases, req[p].user, now) < req[p].n

\* C31 as stated: a credit-paid request whose owner's eligible balance at the
\* pre-check is below the units requested is answered 402 there: it never gets
\* to the compute call and the step changes no purchase and no usage record.
C31_ShortBalanceIs402 ==
  [][\A p \in Reqs :
       (Short(p) /\ Moves(p))
         => /\ req'[p].pc = "done" /\ req'[p].status = 402
            /\ purchases' = purchases /\ usage' = usage]_vars

\* ------------------------------------------------------------ claims on the rate limiter
\* The requests of the user u admitted within the 60 seconds up to now.
AdmittedInWindow(u) ==
  LET n(e) == Len(Recent(rateLimitStore[<<u, e>>], now - WindowMs))
  IN n("analyze") + n("analyze-batch")

\* C32 as stated: at most MAX_REQUESTS_PER_MINUTE requests of one user are
\* admitted within any 60-second window, and a refused request is told a positive
\* retryAfter.
C32_PerUserLimit ==
  /\ \A u \in {Owner, Other} : AdmittedInWindow(u) <= MAX_REQUESTS_PER_MINUTE
  /\ ~rateLimitResult.allowed => rateLimitResult.retryAfter > 0

\* ------------------------------------------------------------ claims on the batch deduction loop
\* The batch request p gives up in this step, at the lookup or the update of a
\* purchase.
BatchGivesUp(p) ==
  /\ req[p].kind = "batch" /\ req[p].pc \in {"bfind", "bupdate"}
  /\ req'[p].pc = "done"

\* C33: when the lookup or the decrement of a purchase fails in the batch loop,
\* the step writes nothing (what the request took from earlier purchases stays
\* taken), the request is answered 402 or 500 instead of the AI responses, and it
\* has taken fewer credits than the images it asked for.
C33_PartialDeductionKept ==
  [][\A p \in Reqs :
       BatchGivesUp(p)
         => /\ purchases' = purchases /\ usage' = usage
            /\ req'[p].status \in {402, 500}
            /\ req'[p].taken = req[p].taken
            /\ req'[p].taken < req[p].n]_vars

\* C33 witness: a batch request of 2 images took the credit of the older purchase
\* and then failed at the lookup or the update of the next one; the older
\* purchase is still at 0.
C33_Witness ==
  \E p \in Reqs :
    /\ req[p].kind = "batch" /\ req[p].n = 2 /\ req[p].pc = "done"
    /\ req[p].at \in {"bfind", "bupdate"} /\ req[p].status \in {402, 500}
    /\ req[p].taken = 1
    /\ purchases[1].remaining = 0

\* ------------------------------------------------------------ claims on decrement_credit
\* The calls that returned success = true.
DecSucceeded == {p \in Reqs : req[p].kind = "dec" /\ req[p].pc = "done" /\ req[p].status = 200}

\* C34: concurrent calls of decrement_credit on one purchase never hold the row
\* at the same time; a call that returns success has lowered remaining_credits by
\* exactly its amount, a call returns success = false only when the row is
\* missing or holds fewer credits than its amount, and then leaves the row as it
\* is; the purchase is lower by the sum of the amounts of the successful calls.
C34_DecrementAtomic ==
  [][/\ \A p, q \in Reqs : p # q => LockedBy(p) \cap LockedBy(q) = {}
     /\ Deducted = SumUnits(DecSucceeded)
     /\ \A p \in Reqs :
          (req[p].kind = "dec" /\ Moves(p) /\ req'[p].pc = "done")
            => \/ /\ req'[p].status = 200 /\ req'[p].taken = req[p].n
                  /\ purchases' = SetRemaining(purchases, req[p].cpId,
                                               purchases[req[p].cpId].remaining - req[p].n)
               \/ /\ req'[p].status = 500 /\ req'[p].taken = 0
                  /\ purchases' = purchases
                  /\ \/ req[p].cpId \notin Ids
                     \/ purchases[req[p].cpId].remaining < req[p].n]_vars

\* C34 witness: three calls on the purchase of 3 credits, two with amount 2 and
\* one with amount 1, have all returned: one call of amount 2 failed, the other
\* two succeeded, and the purchase is at 0.
C34_Witness ==
  /\ AllDone
  /\ \A p \in Reqs : req[p].kind = "dec" /\ req[p].n \in {1, 2}
  /\ Cardinality(DecSucceeded) = 2
  /\ \E p \in Reqs : req[p].status = 500 /\ req[p].n = 2
  /\ purchases[1].remaining = 0

C36_NothingAfter504 ==
  [][\A p \in Reqs : (req[p].timedOut /\ Moves(p)) => (purchases' = purchases /\ usage' = usage)]_vars

\* ------------------------------------------------------------ claims on own-key requests
\* C37: no step of a request that comes with the caller's own API key changes a
\* purchase; such a request takes no credit and, when its compute call returns,
\* is answered 200 whatever the owner's balance is.
C37_OwnKeyNeedsNoCredit ==
  [][\A p \in Reqs :
       (req[p].ownKey /\ Moves(p))
         => /\ purchases' = purchases
            /\ req'[p].taken = 0
            /\ (req'[p].pc = "done" /\ req[p].computeOk) => req'[p].status = 200]_vars

\* C37 witness: an own-key request has been answered 200 on a ledger that held
\* no credit from the start and is as it was.
C37_Witness ==
  /\ AvailableCredits(Owner, now) = 0
  /\ purchases = snap
  /\ \E p \in Reqs : req[p].ownKey /\ req[p].pc = "done" /\ req[p].status = 200
  /\ \E p \in Reqs : req[p].ownKey /\ req[p].kind = "batch" /\ req[p].pc = "done"
                      /\ req[p].status = 200

\* ------------------------------------------------------------ claims on the usage total
RECURSIVE SumCreditsUsed(_)
SumCreditsUsed(S) ==
  IF S = {} THEN 0
  ELSE LET row == CHOOSE x \in S : TRUE IN
         row.credits_used * CopiesIn(row, usage) + SumCreditsUsed(S \ {row})

\* totalCreditsUsed: the sum of credits_used over the api_usage rows of the user.
TotalCreditsUsed(u) == SumCreditsUsed({row \in BagToSet(usage) : row.user = u})

\* C38: once every request is answered, with every usage insert having
\* succeeded, the sum of credits_used over the owner's usage records is the
\* number of credits taken from the owner's purchases, and the records of
\* own-key requests carry credits_used 0.
C38_UsageTotalIsDeducted ==
  (AllDone /\ \A p \in Reqs : req[p].logOk)
    => /\ TotalCreditsUsed(Owner) = Deducted
       /\ \A row \in BagToSet(usage) : row.api_key_used => row.credits_used = 0

\* ------------------------------------------------------------ claims on the subscriptions of an owner
\* The owner's subscriptions with status active.
ActiveSubsOf(u) == {i \in DOMAIN subs : subs[i].user = u /\ subs[i].status = "active"}

\* C39: no owner has more than one subscription with status active.
C39_OneActiveSubscription == \A u \in {Owner, Other} : Cardinality(ActiveSubsOf(u)) <= 1

\* ------------------------------------------------------------ claims on the acknowledged checkout
\* The purchases granted for subscription row k.
GrantsOf(k) == {i \in Ids : purchases[i].sub = k /\ purchases[i].ptype = "subscription"}

\* C40: once a delivery of a subscription checkout is acknowledged with 200,
\* every Subscription row of its external subscription has its Purchase.
C40_AckedSubscriptionHasPurchase ==
  \A d \in Hooks :
    (IsSubCheckout(d) /\ hook[d].pc = "done" /\ hook[d].ack = 200)
      => \A k \in SubsOf(hook[d].event.ref) : GrantsOf(k) # {}

====
